---- MODULE Spec2Model ----
(***************************************************************************)
(* FootballTrader: the match-lifecycle control loop (AutoTrader.start),    *)
(* the snapshot / goal-timeline updater, the finalization engine           *)
(* (decide_to_archive) and the LTD60 two-entry order engine, for one match *)
(* row of current_matches and the archive table.                           *)
(*                                                                         *)
(* Units: time is in seconds relative to the kickoff of the match          *)
(* (now < 0 before kickoff); prices are in tenths (45 = 4.5); stakes,      *)
(* matched sizes, liabilities and pnl are in tenths of a currency unit     *)
(* (1000 = 100.0).                                                         *)
(***************************************************************************)
EXTENDS Integers, Sequences, FiniteSets, TLC

VARIABLES
    now,              \* datetime.now(timezone.utc) - kickoff, in seconds
    current_matches,  \* table current_matches: event_id -> row
    archive,          \* table archive_v3: sequence of archived rows
    pc,               \* position of AutoTrader.start inside one tick
    ev,               \* the in-memory snapshot `ev` held by the loop body
    api,              \* TRUE iff BetfairSession.connect() succeeded this tick
    PAPER_MODE,       \* core.settings.PAPER_MODE (1 paper, 0 live), fixed
    gw,               \* gateway-side facts: matched size and price of each entry's bet
    trail,            \* observations of the last step (orders, cancels, archive calls)
    sched,            \* scheduler.py: module state, loop threads, callers, wall clock
    tick              \* AutoTrader.start: position in `for row in rows`, calls made so far

tvars == <<now, current_matches, archive, pc, ev, api, PAPER_MODE, gw, trail, tick>>
vars == <<now, current_matches, archive, pc, ev, api, PAPER_MODE, gw, trail, sched, tick>>

----------------------------------------------------------------------------
(* Python None, per column type *)
None == -99999          \* numeric columns
NoStatus == "None"      \* inplay_status IS NULL
NoFt == <<>>            \* ft_score IS NULL (falsy, like "")
NoStrategy == "None"    \* strategy IS NULL
NoText == ""            \* e_status IS NULL

(* program constants *)
SP_CAPTURE_WINDOW_SEC == 90
SP_FALLBACK_INPLAY == TRUE
LTD60_KO_WINDOW_MINUTES == 12
LTD60_MAX_ODDS_ACCEPT == 45
LTD60_MAX_SECOND_ENTRY_ODDS == 25
LTD60_SECOND_ENTRY_TIME == 60
CANCEL2_TIME == 75
STAKE_LTD_PAPER == 1000
STAKE_LTD_LIVE == 40
FINISH_TIMEOUT_SEC == 14400
DELETE_AGE_SEC == 86400
PURGE_AGE_SEC == 86400
UNUSABLE_ELAPSED == 90

(* bounds of the model *)
MaxGoals == 1

Bands == {15, 30, 45, 60, 75, 90}
Event == "e1"
KickoffTime == 0

Terminal == {"Finished", "Cancelled", "Abandoned"}
Started == {"KickOff", "InPlay", "SecondHalfKickOff"}

----------------------------------------------------------------------------
(* competition labels: <<name, form>>; form "raw" stands for a label with  *)
(* surrounding blanks / upper case, "norm" for the stripped lower-case one *)
_normalise(league_name) ==
    IF league_name = <<>> THEN <<"", "norm">> ELSE <<league_name[1], "norm">>

_filtered == {_normalise(lg) : lg \in {<<"alpha", "raw">>, <<"beta", "raw">>}}
_late_goals == {_normalise(lg) : lg \in {<<"alpha", "raw">>}}

----------------------------------------------------------------------------
(* a fresh row of current_matches as the discovery job inserts it *)
NewRow(kickoff, comp, market_id) ==
    [event_id |-> Event, kickoff |-> kickoff, comp |-> comp,
     market_id_MATCH_ODDS |-> market_id,
     inplay_status |-> NoStatus, time_elapsed |-> None,
     h_score |-> None, a_score |-> None,
     h_back_price |-> None, a_back_price |-> None, d_back_price |-> None,
     market_state |-> NoStatus,
     h_SP |-> None, a_SP |-> None, d_SP |-> None, fav |-> None,
     h_goals |-> [b \in Bands |-> None], a_goals |-> [b \in Bands |-> None],
     ft_score |-> NoFt, result |-> None, pnl |-> None,
     strategy |-> NoStrategy,
     e_ordered |-> None, e_price |-> None, e_stake |-> None,
     e_matched |-> None, e_remaining |-> None, e_status |-> NoText,
     e_betid |-> None, liability |-> None]

(* ---- DBHelper (store primitives) ---- *)
fetch_current(db, id) == IF id \in DOMAIN db THEN <<db[id]>> ELSE <<>>

update_current(db, id, upd) ==
    IF id \in DOMAIN db
    THEN [db EXCEPT ![id] = [f \in DOMAIN @ |-> IF f \in DOMAIN upd THEN upd[f] ELSE @[f]]]
    ELSE db

delete_from_current(db, id) == [i \in (DOMAIN db) \ {id} |-> db[i]]

(* mutant: the row is copied into the archive and left in current_matches *)
archive_match_copy(db, arch, id, fail) ==
    IF fail THEN [db |-> db, arch |-> arch, raised |-> TRUE]
    ELSE IF id \notin DOMAIN db \/ db[id].ft_score = NoFt
         THEN [db |-> db, arch |-> arch, raised |-> FALSE]
         ELSE [db |-> db, arch |-> Append(arch, db[id]), raised |-> FALSE]

(* archive_match: atomic move current -> archive; store = [db, arch].      *)
(* fails (raises) on a store error, and moves nothing when the row is      *)
(* absent or carries no ft_score                                           *)
archive_match(db, arch, id, fail) ==
    IF fail THEN [db |-> db, arch |-> arch, raised |-> TRUE]
    ELSE IF id \notin DOMAIN db \/ db[id].ft_score = NoFt
         THEN [db |-> db, arch |-> arch, raised |-> FALSE]
         ELSE [db |-> delete_from_current(db, id), arch |-> Append(arch, db[id]),
               raised |-> FALSE]

----------------------------------------------------------------------------
(* ft_score strings: f"{int(h)}-{int(a)}" as a sequence of characters *)
Digits == <<"0", "1", "2", "3", "4", "5", "6", "7", "8", "9">>
str(n) == Digits[n + 1]
format_ft(h, a) == <<str(h), "-", str(a)>>

(* int(s.strip()) of a one-character string; None when it raises *)
to_int(s) ==
    IF \E n \in 0..9 : Digits[n + 1] = s
    THEN CHOOSE n \in 0..9 : Digits[n + 1] = s
    ELSE None

(* ft.split("-", 1) then int() of both parts; (None, None) on any failure *)
_parse_ft(ft) ==
    IF ft = NoFt \/ ~(\E i \in 1..Len(ft) : ft[i] = "-")
    THEN <<None, None>>
    ELSE LET i == CHOOSE k \in 1..Len(ft) :
                     ft[k] = "-" /\ \A j \in 1..(k - 1) : ft[j] # "-"
             left == SubSeq(ft, 1, i - 1)
             right == SubSeq(ft, i + 1, Len(ft))
         IN IF Len(left) = 1 /\ Len(right) = 1
                /\ to_int(left[1]) # None /\ to_int(right[1]) # None
            THEN <<to_int(left[1]), to_int(right[1])>>
            ELSE <<None, None>>

(* mutant: the draw is taken for the decisive result *)
_compute_result_inverted(h, a) ==
    IF h = None \/ a = None THEN None
    ELSE IF h # a THEN 0 ELSE 1

_compute_result(h, a) ==
    IF h = None \/ a = None THEN None
    ELSE IF h # a THEN 1 ELSE 0

----------------------------------------------------------------------------
(* ---- Market Data Gateway responses ---- *)
(* get_scores: ok = FALSE when the call raised or returned an empty list;  *)
(* has_score = FALSE when the score object of the response is None        *)
NoScores ==
    [ok |-> FALSE, match_status |-> NoStatus, time_elapsed |-> None,
     has_score |-> FALSE, home |-> None, away |-> None]

Scores(status, te, h, a) ==
    [ok |-> TRUE, match_status |-> status, time_elapsed |-> te,
     has_score |-> TRUE, home |-> h, away |-> a]

ScoresNoObj(status, te) ==
    [ok |-> TRUE, match_status |-> status, time_elapsed |-> te,
     has_score |-> FALSE, home |-> None, away |-> None]

(* list_market_book: kind "error" = the call raised, "none" = empty list,  *)
(* "book" = one book with n_runners runners; back[i] is the best           *)
(* available-to-back price of runner i (None when the ladder is empty).    *)
(* The best-lay columns are volatile, read by nothing, and not modelled.   *)
NoBook == [kind |-> "none", n_runners |-> 0, back |-> <<None, None, None>>,
           status |-> NoStatus]
BookError == [kind |-> "error", n_runners |-> 0, back |-> <<None, None, None>>,
              status |-> NoStatus]
Book(h, a, d) == [kind |-> "book", n_runners |-> 3, back |-> <<h, a, d>>,
                  status |-> "OPEN"]
ShortBook == [kind |-> "book", n_runners |-> 2, back |-> <<None, None, None>>,
              status |-> "OPEN"]

----------------------------------------------------------------------------
(* ---- Snapshot & timeline updater ---- *)
_band_tag(t) ==
    IF t <= 15 THEN 15
    ELSE IF t <= 30 THEN 30
    ELSE IF t <= 45 THEN 45
    ELSE IF t <= 60 THEN 60
    ELSE IF t <= 75 THEN 75
    ELSE 90

(* maybe_write(tag, cur_h, cur_a): cur_h and cur_a are not consulted *)
maybe_write(db, event_id, tag, cur_h, cur_a, h_score, a_score) ==
    IF h_score # None /\ a_score # None /\ event_id \in DOMAIN db
    THEN update_current(db, event_id,
             [h_goals |-> [db[event_id].h_goals EXCEPT ![tag] = h_score],
              a_goals |-> [db[event_id].a_goals EXCEPT ![tag] = a_score]])
    ELSE db

_update_goal_timeline(db, event_id, time_elapsed, inplay_status, h_score, a_score, ft_score) ==
    IF fetch_current(db, event_id) = <<>> THEN db
    ELSE
    LET row == db[event_id]
        db1 == IF time_elapsed # None
               THEN LET tag == _band_tag(time_elapsed)
                    IN maybe_write(db, event_id, tag, row.h_goals[tag], row.a_goals[tag],
                                   h_score, a_score)
               ELSE db
        parsed == IF ft_score # NoFt /\ (\E i \in 1..Len(ft_score) : ft_score[i] = "-")
                  THEN _parse_ft(ft_score)
                  ELSE <<None, None>>
        ft == IF parsed[1] = None \/ parsed[2] = None
              THEN IF h_score # None /\ a_score # None
                   THEN <<h_score, a_score>> ELSE <<None, None>>
              ELSE parsed
    IN IF inplay_status = "Finished"
       THEN IF ft[1] = None \/ ft[2] = None THEN db1
            ELSE update_current(db1, event_id,
                   [h_goals |-> [b \in Bands |->
                        IF row.h_goals[b] = None /\ row.a_goals[b] = None
                        THEN ft[1] ELSE db1[event_id].h_goals[b]],
                    a_goals |-> [b \in Bands |->
                        IF row.h_goals[b] = None /\ row.a_goals[b] = None
                        THEN ft[2] ELSE db1[event_id].a_goals[b]]])
       ELSE db1

(* mutant: the starting price is rewritten whenever a live price exists *)
_every_time(sp_cur, snap) == snap # None

(* "Only write once": if h_sp_cur is None and h_snap is not None *)
_only_once(sp_cur, snap) == sp_cur = None /\ snap # None

(* mutant: equal prices make the away side the favourite *)
_fav_no_tie(effective_h, effective_a) ==
    IF effective_h < effective_a THEN 1 ELSE 2

(* lines 412-418: 1 home favourite, 2 away favourite, 0 equal *)
_fav(effective_h, effective_a) ==
    IF effective_h < effective_a THEN 1
    ELSE IF effective_a < effective_h THEN 2 ELSE 0

(* mutant: a snapshot is taken whenever a book is there *)
_capture_always(kickoff, t, needs_sp, e) == TRUE

(* capture_now: 1) the pre-kickoff window, 2) the in-play fallback, tested *)
(* on the ev the function was given                                        *)
_capture_now(kickoff, t, needs_sp, e) ==
    \/ (kickoff # None /\ 0 <= kickoff - t /\ kickoff - t <= SP_CAPTURE_WINDOW_SEC)
    \/ (SP_FALLBACK_INPLAY /\ needs_sp
        /\ ((e.time_elapsed # None /\ e.time_elapsed >= 0)
            \/ e.inplay_status \in Started))

(* the SP + fav one-time updater (second half of _update_inplay_info) *)
_capture_sp(db, e, event_id, t, book) ==
    LET rows == fetch_current(db, event_id)
        has == rows # <<>>
        h_sp_cur == IF has THEN rows[1].h_SP ELSE None
        a_sp_cur == IF has THEN rows[1].a_SP ELSE None
        d_sp_cur == IF has THEN rows[1].d_SP ELSE None
        fav_cur == IF has THEN rows[1].fav ELSE None
        kickoff == IF has THEN rows[1].kickoff ELSE None
        needs_sp == h_sp_cur = None \/ a_sp_cur = None \/ d_sp_cur = None
        needs_fav == fav_cur = None
        capture_now == _capture_now(kickoff, t, needs_sp, e)
        h_snap == book.back[1]
        a_snap == book.back[2]
        d_snap == book.back[3]
        effective_h == IF h_sp_cur # None THEN h_sp_cur ELSE h_snap
        effective_a == IF a_sp_cur # None THEN a_sp_cur ELSE a_snap
        u1 == IF _only_once(h_sp_cur, h_snap) THEN [h_SP |-> h_snap] ELSE <<>>
        u2 == IF _only_once(a_sp_cur, a_snap) THEN [a_SP |-> a_snap] ELSE <<>>
        u3 == IF _only_once(d_sp_cur, d_snap) THEN [d_SP |-> d_snap] ELSE <<>>
        u4 == IF needs_fav /\ effective_h # None /\ effective_a # None
              THEN [fav |-> _fav(effective_h, effective_a)]
              ELSE <<>>
    IN IF capture_now /\ book.n_runners >= 3
       THEN update_current(update_current(update_current(update_current(
                db, event_id, u1), event_id, u2), event_id, u3), event_id, u4)
       ELSE db

(* lines 266-296: the status and score write and the goal timeline.  The *)
(* red-card columns are volatile, read by nothing, and not modelled.      *)
_write_scores(db, e, scores, h_score, a_score) ==
    _update_goal_timeline(
        update_current(db, e.event_id,
            [inplay_status |-> scores.match_status,
             time_elapsed |-> scores.time_elapsed,
             h_score |-> h_score, a_score |-> a_score]),
        e.event_id, scores.time_elapsed, scores.match_status,
        h_score, a_score, e.ft_score)

(* mutant: the answer of get_scores is written whether it is there or not *)
_sync_scores_unguarded(db, e, scores) ==
    _write_scores(db, e, scores,
                  IF scores.has_score THEN scores.home ELSE None,
                  IF scores.has_score THEN scores.away ELSE None)

(* lines 258-296: `if scores:` *)
_sync_scores(db, e, scores) ==
    IF scores.ok
    THEN _write_scores(db, e, scores,
                       IF scores.has_score THEN scores.home ELSE None,
                       IF scores.has_score THEN scores.away ELSE None)
    ELSE db

(* _update_inplay_info(db, api, ev) at time t with the gateway answering   *)
(* `scores` and `book`; raised = the order-book request raised; got =      *)
(* <<get_scores answered, an order book was fetched>>                       *)
_update_inplay_info(db, e, t, scores, book) ==
    LET event_id == e.event_id
        market_id == e.market_id_MATCH_ODDS
        db1 == _sync_scores(db, e, scores)
        got == <<scores.ok, market_id # None /\ book.kind = "book">>
        db2 == IF book.n_runners >= 3
               THEN update_current(db1, event_id,
                        [h_back_price |-> book.back[1], a_back_price |-> book.back[2],
                         d_back_price |-> book.back[3],
                         market_state |-> book.status])
               ELSE db1
    IN IF market_id = None THEN [db |-> db1, raised |-> FALSE, got |-> got]
       ELSE IF book.kind = "error" THEN [db |-> db1, raised |-> TRUE, got |-> got]
       ELSE IF book.kind = "none" THEN [db |-> db1, raised |-> FALSE, got |-> got]
       ELSE [db |-> _capture_sp(db2, e, event_id, t, book), raised |-> FALSE, got |-> got]

----------------------------------------------------------------------------
(* ---- Finalization engine ---- *)
(* BaseStrategy.calculate_pnl(ev, result_val): +matched on a decisive      *)
(* result, -liability on a draw; NULL without a result or a strategy       *)
calculate_pnl(e, result_val) ==
    IF result_val = None \/ e.strategy = NoStrategy THEN None
    ELSE IF result_val = 1
         THEN (IF e.e_matched = None THEN 0 ELSE e.e_matched)
         ELSE 0 - (IF e.liability = None THEN 0 ELSE e.liability)

has_dash(ft) == \E i \in 1..Len(ft) : ft[i] = "-"

(* outcome of one archiving path: st = [db, arch, raised, moved] *)
_outcome(am, arch) ==
    [db |-> am.db, arch |-> am.arch, raised |-> am.raised,
     moved |-> Len(am.arch) > Len(arch)]

_unmoved(db, arch) == [db |-> db, arch |-> arch, raised |-> FALSE, moved |-> FALSE]

(* mutant: the settlement does not write inplay_status *)
_settle_keep_status(db, arch, e, ft, result_val, fail) ==
    _outcome(archive_match(
                 update_current(db, e.event_id,
                     [ft_score |-> ft,
                      result |-> result_val, pnl |-> calculate_pnl(e, result_val)]),
                 arch, e.event_id, fail),
             arch)

(* lines 539-565: write {inplay_status, ft_score, result, pnl}, archive *)
_settle(db, arch, e, ft, result_val, fail) ==
    _outcome(archive_match(
                 update_current(db, e.event_id,
                     [inplay_status |-> "Finished", ft_score |-> ft,
                      result |-> result_val, pnl |-> calculate_pnl(e, result_val)]),
                 arch, e.event_id, fail),
             arch)

(* lines 523-537: parse the stored ft_score, fall back to the live scores *)
_settle_parsed(db, arch, e, ft0, parsed, fail) ==
    IF (parsed[1] = None \/ parsed[2] = None) /\ e.h_score # None /\ e.a_score # None
    THEN _settle(db, arch, e, format_ft(e.h_score, e.a_score),
                 _compute_result(e.h_score, e.a_score), fail)
    ELSE _settle(db, arch, e, ft0, _compute_result(parsed[1], parsed[2]), fail)

(* lines 518-565: ARCHIVE ON FINISH, on the row as re-read *)
_finish_row(db, arch, e, row_now, fail) ==
    IF e.inplay_status = "Finished" /\ row_now # <<>> /\ row_now[1].ft_score # NoFt
    THEN _settle_parsed(db, arch, e, row_now[1].ft_score,
                        IF has_dash(row_now[1].ft_score)
                        THEN _parse_ft(row_now[1].ft_score) ELSE <<None, None>>,
                        fail)
    ELSE _unmoved(db, arch)

(* lines 514-516: "If finished, set FT score (once)" *)
_set_ft_score(db, e) ==
    IF e.inplay_status = "Finished" /\ e.h_score # None /\ e.a_score # None
    THEN update_current(db, e.event_id, [ft_score |-> format_ft(e.h_score, e.a_score)])
    ELSE db

_reread_and_finish(db, arch, e, fail) ==
    _finish_row(db, arch, e, fetch_current(db, e.event_id), fail)

(* lines 514-565 *)
_archive_on_finish(db, arch, e, fail) ==
    _reread_and_finish(_set_ft_score(db, e), arch, e, fail)

(* lines 576-600: force finish using the last known score; errors swallowed *)
_force_with(db, arch, e, ft, parsed, fail) ==
    [_settle(db, arch, e, ft, _compute_result(parsed[1], parsed[2]), fail)
        EXCEPT !.raised = FALSE]

(* mutant: the live scores are preferred to the stored ft_score *)
_last_live_score(e) ==
    IF e.h_score # None /\ e.a_score # None THEN format_ft(e.h_score, e.a_score)
    ELSE e.ft_score

_last_known_ft(e) ==
    IF e.ft_score # NoFt THEN e.ft_score
    ELSE IF e.h_score # None /\ e.a_score # None
         THEN format_ft(e.h_score, e.a_score) ELSE NoFt

_force_ft(db, arch, e, ft, fail) ==
    IF ft # NoFt THEN _force_with(db, arch, e, ft, _parse_ft(ft), fail)
    ELSE _unmoved(db, arch)

(* lines 567-602: ARCHIVE IF COMPLETE BUT NOT 'FINISHED' *)
_force_finish(db, arch, e, t, fail) ==
    IF e.kickoff # None /\ e.inplay_status \notin Terminal
       /\ t - e.kickoff > FINISH_TIMEOUT_SEC
    THEN _force_ft(db, arch, e, _last_known_ft(e), fail)
    ELSE _unmoved(db, arch)

(* lines 604-626: DELETE IF UNUSEABLE (errors swallowed; kickoff None raises) *)
_delete_unusable(db, e, t) ==
    IF e.kickoff # None /\ t - e.kickoff > DELETE_AGE_SEC
       /\ e.inplay_status \notin Terminal
       /\ e.ft_score = NoFt
       /\ (e.time_elapsed = None \/ e.time_elapsed < UNUSABLE_ELAPSED)
    THEN delete_from_current(db, e.event_id)
    ELSE db

(* the two later sections of decide_to_archive, run after the first one    *)
(* returned without raising; n, f = outcomes of the first and second       *)
(* gone = the stored row as delete_from_current removed it: <<ft_score,     *)
(* inplay_status, time_elapsed, result, pnl>>                               *)
_after_force(n, f, d, e) ==
    [db |-> d, arch |-> f.arch, raised |-> FALSE, moved |-> n.moved \/ f.moved,
     deleted |-> (e.event_id \in DOMAIN f.db) /\ (e.event_id \notin DOMAIN d),
     gone |-> IF (e.event_id \in DOMAIN f.db) /\ (e.event_id \notin DOMAIN d)
              THEN <<f.db[e.event_id].ft_score, f.db[e.event_id].inplay_status,
                     f.db[e.event_id].time_elapsed, f.db[e.event_id].result,
                     f.db[e.event_id].pnl>>
              ELSE <<>>]

_after_finish_2(n, f, e, t) == _after_force(n, f, _delete_unusable(f.db, e, t), e)

_after_finish(n, e, t, fail) ==
    IF n.raised
    THEN [db |-> n.db, arch |-> n.arch, raised |-> TRUE, moved |-> FALSE,
          deleted |-> FALSE, gone |-> <<>>]
    ELSE _after_finish_2(n, _force_finish(n.db, n.arch, e, t, fail), e, t)

(* decide_to_archive(db, api, ev) at time t; fail = archive_match raises.  *)
(* Result: [db, arch, raised, moved, deleted]                              *)
decide_to_archive(db, arch, e, t, fail) ==
    _after_finish(_archive_on_finish(db, arch, e, fail), e, t, fail)

(* mutant: the purge pre-pass deletes nothing *)
_cleanup_nothing(db, t) == db

(* mutant: the purge goes by age alone *)
_cleanup_by_age(db, t) ==
    [i \in {id \in DOMAIN db :
               ~(db[id].kickoff # None /\ t - db[id].kickoff >= PURGE_AGE_SEC)}
        |-> db[i]]

(* _cleanup_stale_matches(db) at time t *)
_cleanup_stale_matches(db, t) ==
    LET dead(r) == r.inplay_status = NoStatus /\ r.ft_score = NoFt
                     /\ r.h_score = None /\ r.a_score = None
        to_delete == {id \in DOMAIN db :
                        db[id].kickoff # None
                        /\ t - db[id].kickoff >= PURGE_AGE_SEC /\ dead(db[id])}
    IN [i \in (DOMAIN db) \ to_delete |-> db[i]]

----------------------------------------------------------------------------
(* ---- Strategy order engine (LTD60) ---- *)
STRATEGY_NAME == "LTD60"

truthy(x) == x # None /\ x # 0
or0(x) == IF x = None THEN 0 ELSE x
max0(x) == IF x < 0 THEN 0 ELSE x

(* "CANCEL" in status or "EXECUTION_COMPLETE" in status *)
CancelledMarks == {"CANCELLED_UNMATCHED BY 60MIN", "CANCELLED_UNMATCHED BY 75MIN"}
CancelErrMarks == {"CANCEL_ERR_UNMATCHED BY 60MIN", "CANCEL_ERR_UNMATCHED BY 75MIN"}
blocks_cancel(status) ==
    status \in CancelledMarks \cup CancelErrMarks \cup {"EXECUTION_COMPLETE"}

(* what one strategy step did: e1 / e2 = an entry-1 / entry-2 order was     *)
(* recorded; c1 / c2 = outcome of the entry-1 / entry-2 cancellation        *)
(* ("no", "ok", "err"); c1_m / c2_m = size matched on that entry's own bet  *)
(* when the cancellation fired; sent = bet ids a live cancel was sent for;  *)
(* sub = entries a live place_orders call was made for (failed or not);     *)
(* can = the order columns before and after a cancellation attempt;         *)
(* got = what the gateway answered to a live update;                        *)
(* gate = <<competition, h_score, a_score, time_elapsed, e_ordered>> of the *)
(* snapshot entry 2 was placed on; d = the draw price fetched; rec1 = the order-lifecycle       *)
(* columns as _maybe_entry1 left them; rec2 = <<e_stake, e_matched,        *)
(* e_remaining, liability>> of the snapshot entry 2 was placed on, then    *)
(* entry 2's price and size                                                *)
NoTrail(op) ==
    [op |-> op, moved |-> FALSE, deleted |-> FALSE, raised |-> FALSE,
     e1 |-> FALSE, e2 |-> FALSE, c1 |-> "no", c2 |-> "no",
     c1_m |-> None, c2_m |-> None, sent |-> {}, gate |-> <<>>,
     d |-> None, rec1 |-> <<>>, rec2 |-> <<>>, store_fail |-> FALSE,
     can1 |-> <<>>, gone |-> <<>>, sub |-> {}, can |-> <<>>, got |-> <<>>]

NoBets == [m1 |-> None, m2 |-> None, p1 |-> None, p2 |-> None]

(* place_orders report: ok = FALSE when the call raised *)
PlaceOk(m) == [ok |-> TRUE, matched |-> m]
PlaceRaise == [ok |-> FALSE, matched |-> 0]
(* order state the gateway reports to _sync_order_state; has = FALSE when   *)
(* nothing changed or nothing is returned                                   *)
NoReport == [has |-> FALSE, matched |-> 0, status |-> NoText]

(* BaseStrategy._mark_strategy *)
_mark_strategy(db, event_id, strategy) ==
    update_current(db, event_id, [strategy |-> strategy])

(* BaseStrategy._order_snapshot: records the entry-1 attempt *)
_order_snapshot(db, event_id, price, size, status, matched, remaining, betid) ==
    update_current(db, event_id,
        [e_ordered |-> 1, e_price |-> price, e_stake |-> size, e_status |-> status,
         e_matched |-> matched, e_remaining |-> remaining, e_betid |-> betid])

(* mutant: the MATCH_ODDS market id is not looked at *)
assign_if_listed(db, e) ==
    IF e.strategy = NoStrategy /\ _normalise(e.comp) \in _filtered
    THEN _mark_strategy(db, e.event_id, STRATEGY_NAME)
    ELSE db

assign_if_applicable(db, e) ==
    IF e.strategy = NoStrategy
       /\ _normalise(e.comp) \in _filtered
       /\ e.market_id_MATCH_ODDS # None
    THEN _mark_strategy(db, e.event_id, STRATEGY_NAME)
    ELSE db

(* mutant: an order exactly at the cap is simulated as matched *)
_paper_fill_above(price, size) ==
    IF price > LTD60_MAX_ODDS_ACCEPT
    THEN [matched |-> 0, remaining |-> size, liability |-> 0]
    ELSE [matched |-> size, remaining |-> 0,
          liability |-> max0(((price - 10) * size) \div 10)]

(* mutant: the nominal liability is booked for an unmatched order too *)
_paper_fill_nominal(price, size) ==
    [matched |-> IF price >= LTD60_MAX_ODDS_ACCEPT THEN 0 ELSE size,
     remaining |-> IF price >= LTD60_MAX_ODDS_ACCEPT THEN size ELSE 0,
     liability |-> max0(((price - 10) * size) \div 10)]

(* paper branch of _maybe_entry1: the simulated LIMIT order *)
_paper_fill(price, size) ==
    IF price >= LTD60_MAX_ODDS_ACCEPT
    THEN [matched |-> 0, remaining |-> size, liability |-> 0]
    ELSE [matched |-> size, remaining |-> 0,
          liability |-> max0(((price - 10) * size) \div 10)]

(* mutant: the live price is taken as it is *)
_uncapped(d_price, cap) == d_price

(* float(cap if d_price > cap else d_price) *)
_capped(d_price, cap) == IF d_price > cap THEN cap ELSE d_price

(* mutant: no pre-kickoff window *)
_never_too_early(e, t) == FALSE

(* minutes_to_ko is not None and minutes_to_ko > LTD60_KO_WINDOW_MINUTES *)
_too_early(e, t) ==
    e.kickoff # None /\ e.kickoff - t > LTD60_KO_WINDOW_MINUTES * 60

(* _maybe_entry1 past its `already in` guard; st = [db, gw, tr] *)
_place_entry1(st, e, d_price, t, paper, place) ==
    IF _too_early(e, t) THEN st
    ELSE IF d_price = None \/ d_price <= 0 THEN st
    ELSE
    LET size == IF paper = 1 THEN STAKE_LTD_PAPER ELSE STAKE_LTD_LIVE
        price == _capped(d_price, LTD60_MAX_ODDS_ACCEPT)
    IN IF paper = 1
       THEN LET fill == _paper_fill(price, size)
            IN [db |-> update_current(
                          _order_snapshot(st.db, e.event_id, price, size,
                                          "PAPER_EXECUTED", fill.matched,
                                          fill.remaining, None),
                          e.event_id, [liability |-> fill.liability]),
                gw |-> [st.gw EXCEPT !.m1 = fill.matched, !.p1 = price],
                tr |-> [st.tr EXCEPT !.e1 = TRUE]]
       ELSE IF place.ok
            THEN [db |-> update_current(
                          _order_snapshot(st.db, e.event_id, price, size, "SUCCESS",
                                          place.matched, max0(size - place.matched), 1),
                          e.event_id,
                          [liability |-> max0(((price - 10) * size) \div 10)]),
                  gw |-> [st.gw EXCEPT !.m1 = place.matched, !.p1 = price],
                  tr |-> [st.tr EXCEPT !.e1 = TRUE, !.sub = @ \cup {1}]]
            ELSE [db |-> _order_snapshot(st.db, e.event_id, price, size, "ERROR",
                                         0, size, None),
                  gw |-> st.gw,
                  tr |-> [st.tr EXCEPT !.e1 = TRUE, !.sub = @ \cup {1}]]

(* mutant: the `already in` guard is missing *)
_maybe_entry1_unguarded(st, e, d_price, t, paper, place) ==
    _place_entry1(st, e, d_price, t, paper, place)

_maybe_entry1(st, e, d_price, t, paper, place) ==
    IF truthy(e.e_ordered) THEN st
    ELSE _place_entry1(st, e, d_price, t, paper, place)

(* BaseStrategy._sync_order_state: persists the live order's reported state *)
_sync_order_state(st, e, apiOK, report) ==
    IF ~apiOK \/ e.e_betid = None \/ ~report.has THEN st
    ELSE [db |-> update_current(st.db, e.event_id,
                     [e_matched |-> report.matched,
                      e_remaining |-> max0(STAKE_LTD_LIVE - report.matched),
                      e_status |-> report.status]),
          gw |-> IF e.e_betid = 1 THEN [st.gw EXCEPT !.m1 = report.matched]
                 ELSE [st.gw EXCEPT !.m2 = report.matched],
          tr |-> st.tr]

(* the order columns of a row *)
OrderFields(r) ==
    <<r.e_ordered, r.e_price, r.e_stake, r.e_status, r.e_matched, r.e_remaining,
      r.e_betid, r.liability>>

(* mutant: a failed cancel clears e_remaining as a successful one does *)
_cancel_failed_cleared(st, e, mark) ==
    [st EXCEPT !.db = update_current(st.db, e.event_id,
                          [e_status |-> mark, e_remaining |-> 0]),
               !.tr.can = <<OrderFields(e),
                            OrderFields(update_current(st.db, e.event_id,
                                [e_status |-> mark, e_remaining |-> 0])[e.event_id])>>]

(* except Exception as e: db.update_current(e_status=f"CANCEL_ERR_{reason}:{e}") *)
_cancel_failed(st, e, mark) ==
    [st EXCEPT !.db = update_current(st.db, e.event_id, [e_status |-> mark]),
               !.tr.can = <<OrderFields(e),
                            OrderFields(update_current(st.db, e.event_id,
                                [e_status |-> mark])[e.event_id])>>]

(* lines 475-483: cancel_orders (live), then the row is marked cancelled;  *)
(* can1 = the order columns before and after, and time_elapsed             *)
_cancel_entry1(st, e, paper, cancel_fails) ==
    IF paper = 0 /\ cancel_fails
    THEN _cancel_failed([st EXCEPT !.tr.c1 = "err"], e, "CANCEL_ERR_UNMATCHED BY 60MIN")
    ELSE LET db2 == update_current(st.db, e.event_id,
                        [e_status |-> "CANCELLED_UNMATCHED BY 60MIN",
                         e_remaining |-> 0, e_matched |-> 0])
         IN [db |-> db2,
             gw |-> st.gw,
             tr |-> [st.tr EXCEPT
                        !.c1 = "ok", !.c1_m = or0(st.gw.m1),
                        !.sent = IF paper = 0 THEN @ \cup {e.e_betid} ELSE @,
                        !.can1 = <<OrderFields(e), OrderFields(db2[e.event_id]),
                                   e.time_elapsed>>,
                        !.can = <<OrderFields(e), OrderFields(db2[e.event_id])>>]]

(* mutant: an order below the cap is cancelled as well *)
_maybe_cancel_entry1_any_price(st, e, apiOK, paper, cancel_fails) ==
    IF ~apiOK THEN st
    ELSE IF ~truthy(e.e_ordered) THEN st
    ELSE IF paper = 0 /\ e.e_betid = None THEN st
    ELSE IF blocks_cancel(e.e_status) THEN st
    ELSE IF or0(e.e_matched) > 0 THEN st
    ELSE IF ~(e.time_elapsed # None /\ e.time_elapsed >= LTD60_SECOND_ENTRY_TIME) THEN st
    ELSE _cancel_entry1(st, e, paper, cancel_fails)

_maybe_cancel_entry1(st, e, apiOK, paper, cancel_fails) ==
    IF ~apiOK THEN st
    ELSE IF ~truthy(e.e_ordered) THEN st
    ELSE IF paper = 0 /\ e.e_betid = None THEN st
    ELSE IF blocks_cancel(e.e_status) THEN st
    ELSE IF e.e_price = None \/ e.e_price # LTD60_MAX_ODDS_ACCEPT THEN st
    ELSE IF or0(e.e_matched) > 0 THEN st
    ELSE IF ~(e.time_elapsed # None /\ e.time_elapsed >= LTD60_SECOND_ENTRY_TIME) THEN st
    ELSE _cancel_entry1(st, e, paper, cancel_fails)

_maybe_cancel_entry2(st, e, apiOK, paper, cancel_fails) ==
    IF ~apiOK THEN st
    ELSE IF or0(e.e_ordered) # 2 THEN st
    ELSE IF paper = 0 /\ e.e_betid = None THEN st
    ELSE IF blocks_cancel(e.e_status) THEN st
    ELSE IF e.e_price = None \/ e.e_price # LTD60_MAX_SECOND_ENTRY_ODDS THEN st
    ELSE IF 2 * or0(e.e_matched) - or0(e.e_stake) > 0 THEN st
    ELSE IF ~(e.time_elapsed # None /\ e.time_elapsed >= CANCEL2_TIME) THEN st
    ELSE IF paper = 0 /\ cancel_fails
    THEN _cancel_failed([st EXCEPT !.tr.c2 = "err"], e, "CANCEL_ERR_UNMATCHED BY 75MIN")
    ELSE LET db2 == update_current(st.db, e.event_id,
                        [e_status |-> "CANCELLED_UNMATCHED BY 75MIN", e_remaining |-> 0])
         IN [db |-> db2,
             gw |-> st.gw,
             tr |-> [st.tr EXCEPT !.c2 = "ok", !.c2_m = or0(st.gw.m2),
                                  !.sent = IF paper = 0 THEN @ \cup {e.e_betid} ELSE @,
                                  !.can = <<OrderFields(e), OrderFields(db2[e.event_id])>>]]

(* _maybe_entry2; a missing draw price makes the price comparison raise *)
(* mutant: only a second entry already placed stops entry 2 *)
_not_second(e_ordered) == e_ordered # 2

(* lines 294-300: entry 1 recorded and no entry 2 yet *)
_first_only(e_ordered) == truthy(e_ordered) /\ e_ordered # 2

(* mutant: the missing price is recorded on the row as a failed second entry *)
_no_draw_price_marked(st, e) ==
    [st EXCEPT !.db = update_current(st.db, e.event_id, [e_status |-> "SECOND_ERROR"]),
               !.tr.raised = TRUE]

(* line 328: d_price > LTD60_MAX_SECOND_ENTRY_ODDS with d_price None raises *)
(* before the guard of lines 331-336; nothing has been written or sent     *)
_no_draw_price(st, e) == [st EXCEPT !.tr.raised = TRUE]

_maybe_entry2(st, e, d_price, paper, place) ==
    IF _normalise(e.comp) \notin _late_goals THEN st
    ELSE IF ~_first_only(e.e_ordered) THEN st
    ELSE IF ~(or0(e.h_score) = 0 /\ or0(e.a_score) = 0) THEN st
    ELSE IF ~(truthy(e.time_elapsed) /\ e.time_elapsed > LTD60_SECOND_ENTRY_TIME) THEN st
    ELSE IF d_price = None THEN _no_draw_price(st, e)
    ELSE
    LET second_size == IF paper = 1 THEN STAKE_LTD_PAPER ELSE STAKE_LTD_LIVE
        price == _capped(d_price, LTD60_MAX_SECOND_ENTRY_ODDS)
        prev_matched == or0(e.e_matched)
        prev_liability == or0(e.liability)
        prev_stake == or0(e.e_stake)
        prev_remaining == or0(e.e_remaining)
        new_stake == prev_stake + second_size
        gate == <<_normalise(e.comp), e.h_score, e.a_score, e.time_elapsed, e.e_ordered>>
        rec2 == <<prev_stake, prev_matched, prev_remaining, prev_liability,
                  price, second_size>>
    IN IF paper = 1
       THEN LET capped == price >= LTD60_MAX_SECOND_ENTRY_ODDS
                matched == IF capped THEN prev_matched ELSE prev_matched + STAKE_LTD_PAPER
                remaining == IF capped THEN prev_remaining + STAKE_LTD_PAPER ELSE 0
                liability == IF capped THEN prev_liability
                             ELSE prev_liability
                                  + max0(((price - 10) * STAKE_LTD_PAPER) \div 10)
            IN [db |-> update_current(st.db, e.event_id,
                           [e_ordered |-> 2, e_stake |-> new_stake,
                            e_status |-> "PAPER_SECOND", e_matched |-> matched,
                            e_remaining |-> remaining, liability |-> liability]),
                gw |-> [st.gw EXCEPT !.m2 = IF capped THEN 0 ELSE STAKE_LTD_PAPER,
                                    !.p2 = price],
                tr |-> [st.tr EXCEPT !.e2 = TRUE, !.gate = gate, !.rec2 = rec2]]
       ELSE IF place.ok
            THEN LET effective_price == IF truthy(e.e_price) THEN e.e_price ELSE price
                 IN [db |-> update_current(st.db, e.event_id,
                           [e_ordered |-> 2, e_status |-> "SUCCESS",
                            e_stake |-> new_stake,
                            e_matched |-> prev_matched + place.matched,
                            e_betid |-> 2,
                            liability |-> max0(((effective_price - 10) * new_stake) \div 10)]),
                     gw |-> [st.gw EXCEPT !.m2 = place.matched, !.p2 = price],
                     tr |-> [st.tr EXCEPT !.e2 = TRUE, !.gate = gate, !.rec2 = rec2,
                                          !.sub = @ \cup {2}]]
            ELSE [db |-> update_current(st.db, e.event_id, [e_status |-> "SECOND_ERROR"]),
                  gw |-> st.gw, tr |-> [st.tr EXCEPT !.sub = @ \cup {2}]]

(* on_tick, lines 161-181: re-read the row, sync the order state *)
_tick_sync(s, id, apiOK, report) ==
    _sync_order_state(
        IF s.tr.e1
        THEN [s EXCEPT !.tr.rec1 =
                 <<s.db[id].e_ordered, s.db[id].e_price, s.db[id].e_stake,
                   s.db[id].e_matched, s.db[id].e_remaining, s.db[id].liability>>]
        ELSE s,
        s.db[id], apiOK, report)

(* on_tick, lines 183-201: both cancellations act on the same snapshot *)
_tick_cancel(s, id, apiOK, paper, cancel_fails) ==
    _maybe_cancel_entry2(
        _maybe_cancel_entry1(s, s.db[id], apiOK, paper, cancel_fails),
        s.db[id], apiOK, paper, cancel_fails)

(* on_tick, lines 203-210: re-read the row, entry 2 *)
_tick_entry2(s, id, d, paper, place) == _maybe_entry2(s, s.db[id], d, paper, place)

_tick_body(st, id, d, apiOK, t, paper, inp) ==
    _tick_entry2(
        _tick_cancel(
            _tick_sync(
                _maybe_entry1([st EXCEPT !.tr.d = d], st.db[id], d, t, paper, inp.place1),
                id, apiOK, inp.report),
            id, apiOK, paper, inp.cancel_fails),
        id, d, paper, inp.place2)

(* on_tick(db, ev, api) at time t.  inp = [d, place1, place2, report,      *)
(* cancel_fails]: the draw lay price _fetch_mo_prices returns and the      *)
(* gateway's answers to the order calls of this tick                       *)
(* mutant: the row is not re-read; the tick works on the snapshot it was    *)
(* given and writes it back                                                 *)
on_tick_on_snapshot(st, e, apiOK, t, paper, inp) ==
    IF e.strategy # STRATEGY_NAME THEN st
    ELSE IF e.market_id_MATCH_ODDS = None THEN st
    ELSE _tick_body([st EXCEPT !.db = (e.event_id :> e) @@ st.db], e.event_id,
                    IF apiOK THEN inp.d ELSE None, apiOK, t, paper, inp)

on_tick(st, e, apiOK, t, paper, inp) ==
    IF e.strategy # STRATEGY_NAME THEN st
    ELSE IF e.market_id_MATCH_ODDS = None THEN st
    ELSE IF fetch_current(st.db, e.event_id) = <<>> THEN st
    ELSE _tick_body(st, e.event_id, IF apiOK THEN inp.d ELSE None, apiOK, t, paper, inp)

----------------------------------------------------------------------------
(* ---- Discovery scheduler: scheduler.py ---- *)
SCHEDULE_MATCHFINDER_MIN == 30      \* minutes
JOB_ATTEMPTS == 5                   \* for attempt in range(1, 6)

MaxThreads == 2                     \* loop threads ever created
Threads == 1..MaxThreads
Callers == {"main", "other"}        \* threads calling start_scheduler / stop_scheduler

(* mf.run(): returns; raises OperationalError("database is locked"); raises *)
(* another OperationalError; raises another exception                       *)
JobOutcomes == {"ok", "locked", "operational", "error"}

(* a loop thread: pc = unborn | begin | check | job | sleep | exited        *)
(* | crashed; next_run, now = locals of _scheduler_loop; attempt = local of *)
(* _run_matchfinder_job; wake = end of the 60 x 1s sleep; outcome = how the *)
(* last mf.run() of the current run ended; wait = the sleep before the      *)
(* current attempt, in tenths of a second                                   *)
NoThread ==
    [pc |-> "unborn", next_run |-> None, now |-> None, attempt |-> 0,
     wake |-> None, outcome |-> "none", wait |-> None]

(* module state after import: _running clear, _scheduler_thread None *)
SchedulerOff ==
    [_running |-> FALSE, _scheduler_thread |-> None, clock |-> 0,
     threads |-> [t \in Threads |-> NoThread],
     callers |-> [c \in Callers |-> "idle"]]

is_alive(t) == sched.threads[t].pc \in {"begin", "check", "job", "sleep"}
Unborn == {t \in Threads : sched.threads[t].pc = "unborn"}
Starting == {c \in Callers : sched.callers[c] = "starting"}

(* start_scheduler, lines 80-82: the duplicate-start check *)
StartCheck(c) ==
    /\ sched.callers[c] = "idle"
    /\ Cardinality(Unborn) > Cardinality(Starting)
    /\ sched' = IF sched._running THEN sched
                ELSE [sched EXCEPT !.callers[c] = "starting"]
    /\ UNCHANGED tvars

(* start_scheduler, lines 84-86: set the flag, create and start the thread *)
StartThread(c) ==
    /\ sched.callers[c] = "starting"
    /\ \E t \in Unborn :
         /\ \A u \in Unborn : t <= u
         /\ sched' = [sched EXCEPT !._running = TRUE,
                                   !._scheduler_thread = t,
                                   !.threads[t].pc = "begin",
                                   !.callers[c] = "idle"]
    /\ UNCHANGED tvars

(* stop_scheduler, lines 94-96 *)
StopClear(c) ==
    /\ sched.callers[c] = "idle"
    /\ sched' = IF sched._running
                THEN [sched EXCEPT !._running = FALSE, !.callers[c] = "joining"]
                ELSE sched
    /\ UNCHANGED tvars

(* stop_scheduler, lines 97-99: join(timeout=3) returns, the thread having *)
(* ended or not                                                            *)
StopJoin(c) ==
    /\ sched.callers[c] = "joining"
    /\ sched' = [sched EXCEPT !.callers[c] = "idle"]
    /\ UNCHANGED tvars

(* _scheduler_loop, line 60 *)
LoopBegin(t) ==
    /\ sched.threads[t].pc = "begin"
    /\ sched' = [sched EXCEPT !.threads[t].pc = "check",
                              !.threads[t].next_run = sched.clock]
    /\ UNCHANGED tvars

(* mutant: the loop does not test the flag (while True) *)
LoopCheckForever(t) ==
    /\ sched.threads[t].pc = "check"
    /\ sched' =
         IF sched.clock >= sched.threads[t].next_run
         THEN [sched EXCEPT !.threads[t].pc = "job",
                            !.threads[t].now = sched.clock,
                            !.threads[t].attempt = 1,
                            !.threads[t].outcome = "none"]
         ELSE [sched EXCEPT !.threads[t].pc = "sleep",
                            !.threads[t].now = None,
                            !.threads[t].wake = sched.clock + 1,
                            !.threads[t].outcome = "none"]
    /\ UNCHANGED tvars

(* _scheduler_loop, lines 62-65: while _running.is_set(); now >= next_run *)
LoopCheck(t) ==
    /\ sched.threads[t].pc = "check"
    /\ sched' =
         IF ~sched._running
         THEN [sched EXCEPT !.threads[t] = [NoThread EXCEPT !.pc = "exited"]]
         ELSE IF sched.clock >= sched.threads[t].next_run
              THEN [sched EXCEPT !.threads[t].pc = "job",
                                 !.threads[t].now = sched.clock,
                                 !.threads[t].attempt = 1,
                                 !.threads[t].outcome = "none"]
              ELSE [sched EXCEPT !.threads[t].pc = "sleep",
                                 !.threads[t].now = None,
                                 !.threads[t].wake = sched.clock + 1,
                                 !.threads[t].outcome = "none"]
    /\ UNCHANGED tvars

(* the job has returned to the loop: line 66, then the sleep of 69-72 *)
_job_returned(th, clock) ==
    [th EXCEPT !.pc = "sleep", !.attempt = 0, !.wait = None,
               !.next_run = th.now + SCHEDULE_MATCHFINDER_MIN,
               !.wake = clock + 1]

(* wait = 0.5 * attempt, in tenths of a second *)
_retry_wait(attempt) == 5 * attempt

(* mutant: every failed attempt is retried *)
_run_matchfinder_job_retry_all(th, outcome, clock) ==
    IF outcome = "ok" THEN _job_returned([th EXCEPT !.outcome = outcome], clock)
    ELSE IF th.attempt < JOB_ATTEMPTS
         THEN [th EXCEPT !.attempt = @ + 1, !.outcome = outcome,
                         !.wait = _retry_wait(th.attempt)]
         ELSE _job_returned([th EXCEPT !.outcome = outcome], clock)

(* _run_matchfinder_job, lines 39-55: one attempt, ending as outcome *)
_run_matchfinder_job(th, outcome, clock) ==
    IF outcome = "ok" THEN _job_returned([th EXCEPT !.outcome = outcome], clock)
    ELSE IF outcome = "locked"
         THEN IF th.attempt < JOB_ATTEMPTS
              THEN [th EXCEPT !.attempt = @ + 1, !.outcome = outcome,
                              !.wait = _retry_wait(th.attempt)]
              ELSE _job_returned([th EXCEPT !.outcome = outcome], clock)
    ELSE IF outcome = "operational"
         THEN [NoThread EXCEPT !.pc = "crashed", !.outcome = outcome]
    ELSE _job_returned([th EXCEPT !.outcome = outcome], clock)

JobAttempt(t, Outcomes) ==
    /\ sched.threads[t].pc = "job"
    /\ \E outcome \in Outcomes :
         sched' = [sched EXCEPT
                      !.threads[t] = _run_matchfinder_job(@, outcome, sched.clock)]
    /\ UNCHANGED tvars

(* _scheduler_loop, lines 69-72: the sleep ends after 60 s or on stop *)
LoopSleep(t) ==
    /\ sched.threads[t].pc = "sleep"
    /\ ~sched._running \/ sched.clock >= sched.threads[t].wake
    /\ sched' = [sched EXCEPT !.threads[t].pc = "check", !.threads[t].wake = None]
    /\ UNCHANGED tvars

(* the wall clock, in minutes, moves on to a later instant *)
Advance(Instants) ==
    /\ \E m \in Instants : m > sched.clock /\ sched' = [sched EXCEPT !.clock = m]
    /\ UNCHANGED tvars

----------------------------------------------------------------------------
(* ---- AutoTrader.start, lines 143-216: the loop over the rows of one     *)
(* tick and, per row, over the installed strategies; every call may raise ---- *)
MaxRows == 2                        \* rows listed by list_current
MaxStrategies == 2                  \* len(self.strategies)
Rows == 1..MaxRows
Strategies == 1..MaxStrategies

(* row = index in rows; at = update | decide | strategies | end; strat =   *)
(* index in self.strategies; ran, raised = the calls <<row, call, k>> made *)
(* and the ones that raised, call = "update" | "decide" | "strategy", k =  *)
(* index of the strategy (0 for the other calls)                           *)
TickStart == [row |-> 1, at |-> "update", strat |-> 1, ran |-> {}, raised |-> {}]

(* the body of `for row in rows` is over: next row, or the tick ends *)
_next_row(l) ==
    IF l.row < MaxRows THEN [l EXCEPT !.row = @ + 1, !.at = "update", !.strat = 1]
    ELSE [l EXCEPT !.at = "end"]

(* mutant: an exception of the live update or of finalization ends the     *)
(* loop over the rows                                                      *)
_row_error_ends_tick(l, call) ==
    [l EXCEPT !.ran = @ \cup {<<l.row, call, 0>>}, !.raised = @ \cup {<<l.row, call, 0>>},
              !.at = "end"]

(* lines 206-207: except Exception -> warning; the strategies run next *)
_row_error(l, call) ==
    [l EXCEPT !.ran = @ \cup {<<l.row, call, 0>>}, !.raised = @ \cup {<<l.row, call, 0>>},
              !.at = "strategies", !.strat = 1]

(* lines 154-161: _update_inplay_info, then fetch_current: gone = the row  *)
(* is no longer in current_matches (`continue`)                            *)
RowUpdate ==
    /\ tick.at = "update"
    /\ \E exc \in BOOLEAN, gone \in BOOLEAN :
         tick' = IF exc THEN _row_error(tick, "update")
                 ELSE IF gone
                      THEN _next_row([tick EXCEPT !.ran = @ \cup {<<tick.row, "update", 0>>}])
                      ELSE [tick EXCEPT !.ran = @ \cup {<<tick.row, "update", 0>>},
                                        !.at = "decide"]
    /\ UNCHANGED <<now, current_matches, archive, pc, ev, api, PAPER_MODE, gw, trail, sched>>

(* lines 163-204: decide_to_archive and the logging after it *)
RowDecide ==
    /\ tick.at = "decide"
    /\ \E exc \in BOOLEAN :
         tick' = IF exc THEN _row_error(tick, "decide")
                 ELSE [tick EXCEPT !.ran = @ \cup {<<tick.row, "decide", 0>>},
                                   !.at = "strategies", !.strat = 1]
    /\ UNCHANGED <<now, current_matches, archive, pc, ev, api, PAPER_MODE, gw, trail, sched>>

(* lines 209-216: assign_if_applicable and on_tick of one strategy, in a   *)
(* try of its own                                                          *)
RowStrategy ==
    /\ tick.at = "strategies"
    /\ \E exc \in BOOLEAN :
         LET l == [tick EXCEPT
                      !.ran = @ \cup {<<tick.row, "strategy", tick.strat>>},
                      !.raised = IF exc THEN @ \cup {<<tick.row, "strategy", tick.strat>>} ELSE @]
         IN tick' = IF tick.strat < MaxStrategies
                    THEN [l EXCEPT !.strat = @ + 1]
                    ELSE _next_row(l)
    /\ UNCHANGED <<now, current_matches, archive, pc, ev, api, PAPER_MODE, gw, trail, sched>>

(* lines 237, 121: time.sleep(10), then the next tick *)
NextTick ==
    /\ tick.at = "end"
    /\ tick' = TickStart
    /\ UNCHANGED <<now, current_matches, archive, pc, ev, api, PAPER_MODE, gw, trail, sched>>

----------------------------------------------------------------------------
(* ---- Match lifecycle controller: AutoTrader.start, one tick in four      *)
(* steps for the match; the environment's answers are drawn from the sets   *)
(* given to each step ---- *)

(* purge pre-pass, list_current, session set-up, first fetch_current *)
TickBegin(Sessions) ==
    /\ pc = "idle"
    /\ LET db1 == _cleanup_stale_matches(current_matches, now)
       IN /\ current_matches' = db1
          /\ trail' = [NoTrail("begin") EXCEPT
                          !.deleted = (DOMAIN db1 # DOMAIN current_matches)]
          /\ IF Event \in DOMAIN db1
             THEN /\ pc' = "update"
                  /\ ev' = db1[Event]
                  /\ api' \in Sessions
             ELSE /\ pc' = "idle"
                  /\ UNCHANGED <<ev, api>>
    /\ UNCHANGED <<now, archive, PAPER_MODE, gw, sched, tick>>

Updated(r) ==
    /\ current_matches' = r.db
    /\ trail' = [NoTrail("update") EXCEPT !.raised = r.raised, !.got = r.got]
    /\ IF r.raised
       THEN pc' = "strategy" /\ ev' = ev
       ELSE IF Event \in DOMAIN r.db
            THEN pc' = "decide" /\ ev' = r.db[Event]
            ELSE pc' = "idle" /\ ev' = ev

(* _update_inplay_info (when a session exists), then fetch_current *)
UpdateStep(ScoreAnswers, BookAnswers) ==
    /\ pc = "update"
    /\ \E scores \in ScoreAnswers, book \in BookAnswers :
         Updated(IF api
                 THEN _update_inplay_info(current_matches, ev, now, scores, book)
                 ELSE [db |-> current_matches, raised |-> FALSE, got |-> <<>>])
    /\ UNCHANGED <<now, archive, api, PAPER_MODE, gw, sched, tick>>

(* the effect of one decide_to_archive call on the two tables *)
Finalized(r, op, fail) ==
    /\ current_matches' = r.db
    /\ archive' = r.arch
    /\ trail' = [NoTrail(op) EXCEPT !.moved = r.moved, !.deleted = r.deleted,
                                    !.raised = r.raised, !.store_fail = fail,
                                    !.gone = r.gone]

(* decide_to_archive(db, api, ev) *)
DecideStep(StoreFailures) ==
    /\ pc = "decide"
    /\ \E fail \in StoreFailures :
         \E r \in {decide_to_archive(current_matches, archive, ev, now, fail)} :
            Finalized(r, "decide", fail)
    /\ pc' = "strategy"
    /\ UNCHANGED <<now, ev, api, PAPER_MODE, gw, sched, tick>>

Traded(s) ==
    /\ current_matches' = s.db
    /\ gw' = s.gw
    /\ trail' = s.tr

(* for strat in self.strategies: assign_if_applicable, on_tick *)
StrategyStep(OrderAnswers) ==
    /\ pc = "strategy"
    /\ \E inp \in OrderAnswers :
         Traded(on_tick([db |-> assign_if_applicable(current_matches, ev),
                         gw |-> gw, tr |-> NoTrail("strategy")],
                        ev, api, now, PAPER_MODE, inp))
    /\ pc' = "idle"
    /\ UNCHANGED <<now, archive, ev, api, PAPER_MODE, sched, tick>>

(* time.sleep(10) between ticks: the clock moves on to a later instant *)
Sleep(Instants) ==
    /\ pc = "idle"
    /\ \E t \in Instants : t > now /\ now' = t
    /\ trail' = NoTrail("sleep")
    /\ UNCHANGED <<current_matches, archive, pc, ev, api, PAPER_MODE, gw, sched, tick>>

(* decide_to_archive invoked again, with the last snapshot, for a match     *)
(* that has left current_matches                                            *)
Refinalize(StoreFailures) ==
    /\ pc = "idle"
    /\ Event \notin DOMAIN current_matches
    /\ \E fail \in StoreFailures :
         Finalized(decide_to_archive(current_matches, archive, ev, now, fail),
                   "refinalize", fail)
    /\ UNCHANGED <<now, pc, ev, api, PAPER_MODE, gw, sched, tick>>

InitWith(Kickoffs, Comps, Markets, Modes, t0) ==
    /\ now = t0
    /\ \E k \in Kickoffs, c \in Comps, m \in Markets :
         /\ current_matches = [id \in {Event} |-> NewRow(k, c, m)]
         /\ ev = NewRow(k, c, m)
    /\ archive = <<>>
    /\ pc = "idle"
    /\ api = FALSE
    /\ PAPER_MODE \in Modes
    /\ gw = NoBets
    /\ trail = NoTrail("init")
    /\ sched = SchedulerOff
    /\ tick = TickStart

----------------------------------------------------------------------------
(* ---- environments ---- *)
Goals == 0..MaxGoals
NoOrderAnswer ==
    [d |-> None, place1 |-> PlaceRaise, place2 |-> PlaceRaise, report |-> NoReport,
     cancel_fails |-> FALSE]
Unlisted == <<"gamma", "raw">>      \* a competition in neither allow-list
LateGoal == <<"alpha", "raw">>      \* in both allow-lists
Filtered == <<"beta", "raw">>       \* in the filtered list only

(* Spec: the lifecycle of a match after kickoff, up to archival or deletion. *)
(* Instants: in play; past the finish timeout; past the deletion age.        *)
LifeInstants == {30, FINISH_TIMEOUT_SEC + 600, DELETE_AGE_SEC + 600}
LifeScores ==
    {NoScores, ScoresNoObj("Finished", 95), ScoresNoObj("InPlay", 95)}
    \cup {Scores(st, te, h, 0) :
            st \in {"InPlay", "Finished", "Cancelled"}, te \in {50, 95}, h \in Goals}
LifeBooks == {NoBook, BookError}

Init == InitWith({KickoffTime, None}, {Unlisted}, {1}, {1}, 30)

Next ==
    \/ TickBegin(BOOLEAN)
    \/ UpdateStep(LifeScores, LifeBooks)
    \/ DecideStep(BOOLEAN)
    \/ StrategyStep({NoOrderAnswer})
    \/ Sleep(LifeInstants)
    \/ Refinalize(BOOLEAN)

Spec == Init /\ [][Next]_vars

(* SpecSP: starting-price capture around kickoff.  Instants: before the    *)
(* capture window, inside it, after kickoff.                               *)
SPInstants == {0 - 800, 0 - 60, 30}
SPPrices == {None, 20, 30}
SPScores == {NoScores, Scores("InPlay", 5, 0, 0), ScoresNoObj("KickOff", None)}
SPBooks ==
    {NoBook, ShortBook, BookError}
    \cup {Book(h, a, d) : h \in SPPrices, a \in SPPrices, d \in {None, 35}}

InitSP == InitWith({KickoffTime, None}, {Unlisted}, {1, None}, {1}, 0 - 800)

NextSP ==
    \/ TickBegin(BOOLEAN)
    \/ UpdateStep(SPScores, SPBooks)
    \/ DecideStep({FALSE})
    \/ StrategyStep({NoOrderAnswer})
    \/ Sleep(SPInstants)

SpecSP == InitSP /\ [][NextSP]_vars

----------------------------------------------------------------------------
(* ---- properties ---- *)
InCurrent == Event \in DOMAIN current_matches
Row == current_matches[Event]

(* C1: once h_SP, a_SP, d_SP or fav of the match is non-null in            *)
(* current_matches, no later step (in particular no later call of          *)
(* _update_inplay_info) changes its value.                                 *)
C1_StartingPriceWriteOnce ==
    [][(InCurrent /\ InCurrent') =>
         /\ (Row.h_SP # None => Row'.h_SP = Row.h_SP)
         /\ (Row.a_SP # None => Row'.a_SP = Row.a_SP)
         /\ (Row.d_SP # None => Row'.d_SP = Row.d_SP)
         /\ (Row.fav # None => Row'.fav = Row.fav)]_vars

(* a call of _update_inplay_info inside the capture window that saw a live *)
(* home price different from the captured h_SP, and a favourite that the   *)
(* live prices would no longer give                                        *)
C1_Witness ==
    /\ InCurrent /\ trail.op = "update"
    /\ 0 <= KickoffTime - now /\ KickoffTime - now <= SP_CAPTURE_WINDOW_SEC
    /\ Row.kickoff # None
    /\ Row.h_SP # None /\ Row.h_back_price # None /\ Row.h_back_price # Row.h_SP
    /\ Row.a_back_price # None /\ Row.fav = 1 /\ Row.h_back_price > Row.a_back_price

(* C2: once a band pair h_goals{B}/a_goals{B} of the match is non-null, no *)
(* later step (in particular no later call of _update_goal_timeline, with  *)
(* a different live score inside the same band or at the Finished          *)
(* backfill) changes it.                                                   *)
C2_GoalBandWriteOnce ==
    [][(InCurrent /\ InCurrent') =>
         \A b \in Bands :
            (Row.h_goals[b] # None /\ Row.a_goals[b] # None)
            => (Row'.h_goals[b] = Row.h_goals[b] /\ Row'.a_goals[b] = Row.a_goals[b])]_vars

(* C3: once ft_score (and the result derived from it) is non-null on the   *)
(* current row, no later call of decide_to_archive changes ft_score or     *)
(* result.                                                                 *)
C3_OutcomeWriteOnce ==
    [][(InCurrent /\ Row.ft_score # NoFt /\ InCurrent') =>
         (Row'.ft_score = Row.ft_score /\ Row'.result = Row.result)]_vars

(* C4: after decide_to_archive archives the match, it is absent from       *)
(* current_matches and present exactly once in the archive, and every      *)
(* further step (a further call of decide_to_archive included) changes     *)
(* neither table.                                                          *)
C4_ArchivedExactlyOnce ==
    /\ [](Len(archive) >= 1 => (~InCurrent /\ Len(archive) = 1))
    /\ [][Len(archive) >= 1 =>
            (archive' = archive /\ current_matches' = current_matches)]_vars

(* decide_to_archive has run again for the archived match *)
C4_Witness ==
    /\ Len(archive) = 1 /\ archive[1].event_id = Event
    /\ ~InCurrent /\ trail.op = "refinalize"

(* C5: every archived match has all six band pairs non-null, whether it    *)
(* was archived by the natural-finish or by the forced-finish path.        *)
C5_ArchivedBandsComplete ==
    \A i \in 1..Len(archive) :
       \A b \in Bands : archive[i].h_goals[b] # None /\ archive[i].a_goals[b] # None

----------------------------------------------------------------------------
(* SpecFair: the lifecycle under a reliable environment (a session every   *)
(* tick, no store or market-book failure) with the loop's scheduling: each *)
(* tick runs to its end and is followed by the sleep, so time advances.    *)
FairScores ==
    {NoScores, ScoresNoObj("Finished", 95), Scores("Cancelled", 50, 0, 0),
     Scores("Abandoned", 50, 0, 0), ScoresNoObj("InPlay", 95)}
    \cup {Scores(st, 95, h, 0) : st \in {"InPlay", "Finished"}, h \in Goals}

TickBeginFair == TickBegin({TRUE})
UpdateStepFair == UpdateStep(FairScores, {NoBook})
DecideStepFair == DecideStep({FALSE})
StrategyStepFair == StrategyStep({NoOrderAnswer})
SleepFair == Sleep(LifeInstants)

InitFair == InitWith({KickoffTime}, {Unlisted}, {1}, {1}, 30)

NextFair ==
    \/ TickBeginFair
    \/ UpdateStepFair
    \/ DecideStepFair
    \/ StrategyStepFair
    \/ SleepFair

(* weak fairness of the decide step, WF_vars(DecideStepFair), with          *)
(* ENABLED <<DecideStepFair>>_vars written out as the step's guard: the     *)
(* step always moves pc on, so it is enabled exactly when pc = "decide"     *)
DecideStepRuns == []<>(pc # "decide") \/ []<><<DecideStepFair>>_vars

SpecFair ==
    /\ InitFair /\ [][NextFair]_vars
    /\ WF_vars(TickBeginFair) /\ WF_vars(UpdateStepFair) /\ DecideStepRuns
    /\ WF_vars(StrategyStepFair) /\ SF_vars(SleepFair)

(* C6: with ticks running and time advancing, a row with a known kickoff   *)
(* eventually leaves current_matches (archived or deleted), whatever       *)
(* status the gateway reports.                                             *)
C6_EventuallyLeavesCurrent ==
    (InCurrent /\ Row.kickoff # None) ~> ~InCurrent

----------------------------------------------------------------------------
(* SpecOrder: the LTD60 order lifecycle of a match of an allow-listed      *)
(* competition, in paper and in live mode.  Instants: before the kickoff   *)
(* window; inside it; in play.                                             *)
OrderInstants == {0 - 800, 0 - 60, 3000}
OrderScores ==
    {NoScores, ScoresNoObj("InPlay", 61)}
    \cup {Scores("InPlay", te, h, 0) : te \in {10, 61, 75}, h \in Goals}
DrawPrices == {None, 22, 25, 45, 90}
PlaceReports == {PlaceRaise, PlaceOk(0), PlaceOk(20)}
PaperAnswers ==
    {[d |-> d, place1 |-> PlaceRaise, place2 |-> PlaceRaise, report |-> NoReport,
      cancel_fails |-> FALSE] : d \in DrawPrices}
LiveAnswers ==
    {[d |-> d, place1 |-> p1, place2 |-> p2, report |-> NoReport, cancel_fails |-> cf] :
       d \in {None, 25, 45}, p1 \in PlaceReports, p2 \in PlaceReports, cf \in BOOLEAN}

InitOrder == InitWith({KickoffTime}, {LateGoal, Filtered}, {1}, {0, 1}, 0 - 800)

NextOrder ==
    \/ TickBegin(BOOLEAN)
    \/ UpdateStep(OrderScores, {NoBook})
    \/ DecideStep({FALSE})
    \/ StrategyStep(IF PAPER_MODE = 1 THEN PaperAnswers ELSE LiveAnswers)
    \/ Sleep(OrderInstants)

SpecOrder == InitOrder /\ [][NextOrder]_vars

(* C7: neither _maybe_cancel_entry1 nor _maybe_cancel_entry2 cancels       *)
(* (marks CANCELLED, zeroes e_remaining, sends a live cancel for) an entry *)
(* whose bet has a nonzero matched amount.                                 *)
C7_CancelOnlyUnmatched ==
    /\ (trail.c1 = "ok" => trail.c1_m = 0)
    /\ (trail.c2 = "ok" => trail.c2_m = 0)

(* C8: in paper mode, for a draw price d and stake S, entry 1 is recorded  *)
(* at price min(d, cap); with d >= cap: matched 0, remaining S, liability  *)
(* 0; with d < cap: matched S, remaining 0, liability (d-1)*S.             *)
C8_PaperEntry1 ==
    (trail.e1 /\ PAPER_MODE = 1) =>
        /\ trail.rec1[1] = 1
        /\ trail.rec1[2] = (IF trail.d < LTD60_MAX_ODDS_ACCEPT
                            THEN trail.d ELSE LTD60_MAX_ODDS_ACCEPT)
        /\ trail.rec1[3] = STAKE_LTD_PAPER
        /\ IF trail.d >= LTD60_MAX_ODDS_ACCEPT
           THEN trail.rec1[4] = 0 /\ trail.rec1[5] = STAKE_LTD_PAPER /\ trail.rec1[6] = 0
           ELSE /\ trail.rec1[4] = STAKE_LTD_PAPER /\ trail.rec1[5] = 0
                /\ trail.rec1[6] = ((trail.d - 10) * STAKE_LTD_PAPER) \div 10

(* a paper entry 1 recorded for a draw price exactly at the cap *)
C8_Witness ==
    trail.e1 /\ PAPER_MODE = 1 /\ trail.d = LTD60_MAX_ODDS_ACCEPT /\ trail.rec1[4] = 0

(* C9: once an entry-1 attempt is recorded (e_ordered set), no later tick  *)
(* places another entry-1 order, and e_price stays as recorded; e_stake    *)
(* changes only when entry 2 adds its stake.                               *)
C9_Entry1AtMostOnce ==
    [][(InCurrent /\ truthy(Row.e_ordered) /\ InCurrent') =>
         /\ ~trail'.e1
         /\ Row'.e_price = Row.e_price
         /\ (Row'.e_stake = Row.e_stake \/ trail'.e2)]_vars

(* a strategy tick inside the kickoff window, with a session and a live    *)
(* draw price other than the recorded one, on a match whose entry 1 was    *)
(* recorded by an earlier tick                                             *)
C9_Witness ==
    /\ InCurrent /\ trail.op = "strategy" /\ api
    /\ Row.strategy = STRATEGY_NAME /\ truthy(Row.e_ordered) /\ ~trail.e1
    /\ Row.kickoff - now <= LTD60_KO_WINDOW_MINUTES * 60
    /\ trail.d # None /\ trail.d > 0 /\ trail.d < Row.e_price

(* C10: entry 2 is placed only on a snapshot where entry 2 is not yet      *)
(* placed, the competition is in the late-goal allow-list, h_score and     *)
(* a_score are both 0 and time_elapsed is greater than 60.                 *)
C10_Entry2Gate ==
    trail.e2 =>
        /\ trail.gate[1] \in _late_goals
        /\ trail.gate[2] = 0 /\ trail.gate[3] = 0
        /\ trail.gate[4] # None /\ trail.gate[4] > LTD60_SECOND_ENTRY_TIME
        /\ trail.gate[5] = 1

(* C11: after entry 2 is placed, in paper or live mode, e_stake, e_matched, *)
(* e_remaining and liability each equal the value before entry 2 plus      *)
(* entry 2's own stake, matched size, unmatched size and                   *)
(* (entry-2 price - 1) x its matched size.                                 *)
C11_Entry2Additive ==
    (trail.e2 /\ InCurrent) =>
        /\ Row.e_stake = trail.rec2[1] + trail.rec2[6]
        /\ Row.e_matched = trail.rec2[2] + gw.m2
        /\ Row.e_remaining = trail.rec2[3] + (trail.rec2[6] - gw.m2)
        /\ Row.liability = trail.rec2[4] + ((trail.rec2[5] - 10) * gw.m2) \div 10

----------------------------------------------------------------------------
(* SpecSettle: the order lifecycle followed by the natural finish of the   *)
(* match, in paper and in live mode.  Instants: inside the kickoff window; *)
(* in play.                                                                *)
SettleInstants == {0 - 60, 3000}
SettleScores ==
    {Scores("InPlay", te, 0, 0) : te \in {61, 75}}
    \cup {Scores("Finished", 95, h, 0) : h \in Goals}
SettlePaperAnswers ==
    {[d |-> d, place1 |-> PlaceRaise, place2 |-> PlaceRaise, report |-> NoReport,
      cancel_fails |-> FALSE] : d \in {None, 22, 40, 90}}
SettleLiveAnswers ==
    {[d |-> d, place1 |-> p1, place2 |-> p2, report |-> NoReport, cancel_fails |-> FALSE] :
       d \in {25, 90}, p1 \in PlaceReports, p2 \in PlaceReports}

InitSettle == InitWith({KickoffTime}, {LateGoal}, {1}, {0, 1}, 0 - 60)

NextSettle ==
    \/ TickBegin({TRUE})
    \/ UpdateStep(SettleScores, {NoBook})
    \/ DecideStep({FALSE})
    \/ StrategyStep(IF PAPER_MODE = 1 THEN SettlePaperAnswers ELSE SettleLiveAnswers)
    \/ Sleep(SettleInstants)

SpecSettle == InitSettle /\ [][NextSettle]_vars

(* what the matched part of each entry is worth at settlement: +M on a     *)
(* decisive result, -(P-1)*M on a draw                                     *)
EntryPnl(result_val, m, price) ==
    IF or0(m) = 0 THEN 0
    ELSE IF result_val = 1 THEN m ELSE 0 - ((price - 10) * m) \div 10

(* C12: the pnl of a settled match is the sum over its entries of +M       *)
(* (decisive) or -(P-1)*M (draw), M the entry's matched stake and P its    *)
(* price; an entry that never matched contributes 0.                       *)
C12_SettlementPnl ==
    \A i \in 1..Len(archive) :
       (archive[i].strategy = STRATEGY_NAME /\ archive[i].result # None) =>
          archive[i].pnl = EntryPnl(archive[i].result, gw.m1, gw.p1)
                           + EntryPnl(archive[i].result, gw.m2, gw.p2)

----------------------------------------------------------------------------
(* the snapshot decide_to_archive was given meets the forced-finish         *)
(* conditions at the current instant                                        *)
ForcedFinishDue ==
    /\ trail.op = "decide"
    /\ ev.kickoff # None
    /\ ev.inplay_status \notin {"Finished", "Cancelled", "Abandoned"}
    /\ now - ev.kickoff > 4 * 3600
    /\ (ev.ft_score # NoFt \/ (ev.h_score # None /\ ev.a_score # None))

LastScore == IF ev.ft_score # NoFt THEN ev.ft_score ELSE <<str(ev.h_score), "-", str(ev.a_score)>>

(* C13: a current match with known kickoff, a non-terminal status, older    *)
(* than the finish timeout and with a last-known score is written           *)
(* ft_score = that score, result = 1 iff home # away, pnl and               *)
(* inplay_status = Finished, and is moved to the archive (the store not     *)
(* failing).                                                                *)
C13_ForcedFinish ==
    (ForcedFinishDue /\ ~trail.store_fail) =>
        /\ ~InCurrent
        /\ Len(archive) = 1
        /\ archive[1].ft_score = LastScore
        /\ archive[1].result = (IF LastScore[1] # LastScore[3] THEN 1 ELSE 0)
        /\ archive[1].pnl = calculate_pnl(ev, archive[1].result)
        /\ archive[1].inplay_status = "Finished"

(* a 1-0 last score was forced to "1-0", result 1 *)
C13_Witness ==
    /\ ForcedFinishDue /\ ~trail.store_fail
    /\ ev.ft_score = NoFt /\ ev.h_score = 1 /\ ev.a_score = 0
    /\ Len(archive) = 1 /\ archive[1].ft_score = <<"1", "-", "0">>
    /\ archive[1].result = 1 /\ archive[1].inplay_status = "Finished"

----------------------------------------------------------------------------
(* a row with no score, no status and no ft_score *)
NoData(r) ==
    r.inplay_status = NoStatus /\ r.ft_score = NoFt /\ r.h_score = None /\ r.a_score = None

(* C14: once a tick has begun later than the staleness threshold after     *)
(* kickoff, a match with no score, no status and no ft_score is no longer  *)
(* in current_matches; its removal adds nothing to the archive, it is      *)
(* never archived afterwards, and a row without data carries no pnl.       *)
C14_UnusableDeleted ==
    [][ /\ (trail'.op \notin {"init", "sleep"} /\ InCurrent' /\ Row'.kickoff # None
            /\ now' - Row'.kickoff > 24 * 3600)
           => ~NoData(Row')
        /\ (InCurrent /\ NoData(Row) /\ ~InCurrent') => archive' = archive
        /\ (~InCurrent /\ archive = <<>>) => archive' = <<>>
        /\ (InCurrent' /\ NoData(Row')) => Row'.pnl = None
      ]_vars

(* the purge pre-pass removed a match without data; nothing was archived *)
C14_Witness ==
    /\ trail.op = "begin" /\ trail.deleted
    /\ ~InCurrent /\ archive = <<>>
    /\ NoData(ev) /\ ev.pnl = None
    /\ now - ev.kickoff > 24 * 3600

----------------------------------------------------------------------------
(* SpecAssign: the order lifecycle for matches of every kind of            *)
(* competition, with and without a MATCH_ODDS market id.                   *)
InitAssign == InitWith({KickoffTime}, {Unlisted, Filtered, LateGoal}, {1, None}, {0, 1}, 0 - 800)

NextAssign ==
    \/ TickBegin(BOOLEAN)
    \/ UpdateStep(OrderScores, {NoBook})
    \/ DecideStep({FALSE})
    \/ StrategyStep(IF PAPER_MODE = 1 THEN PaperAnswers ELSE LiveAnswers)
    \/ Sleep(OrderInstants)

SpecAssign == InitAssign /\ [][NextAssign]_vars

(* C15: the strategy step sets strategy = "LTD60" on a match iff the match *)
(* has no strategy, its normalised competition is in the filtered          *)
(* allow-list and its MATCH_ODDS market id is known; a strategy once set   *)
(* never changes; the step that assigns writes no order field and places   *)
(* or cancels no order.                                                    *)
C15_Assignment ==
    [][ /\ (trail'.op = "strategy" /\ InCurrent)
           => ((Row.strategy = NoStrategy /\ InCurrent' /\ Row'.strategy = "LTD60")
               <=> (/\ Row.strategy = NoStrategy
                    /\ _normalise(Row.comp) \in _filtered
                    /\ Row.market_id_MATCH_ODDS # None))
        /\ (InCurrent /\ InCurrent' /\ Row.strategy # NoStrategy)
           => Row'.strategy = Row.strategy
        /\ (InCurrent /\ InCurrent' /\ Row'.strategy # Row.strategy)
           => (/\ OrderFields(Row') = OrderFields(Row)
               /\ gw' = gw
               /\ ~trail'.e1 /\ ~trail'.e2 /\ trail'.sent = {})
      ]_vars

(* the strategy step has just assigned LTD60; no order exists yet *)
C15_Witness ==
    /\ trail.op = "strategy" /\ ev.strategy = NoStrategy
    /\ InCurrent /\ Row.strategy = "LTD60"
    /\ Row.e_ordered = None /\ gw = NoBets

----------------------------------------------------------------------------
(* SpecSched: start_scheduler and stop_scheduler called from two threads,  *)
(* the loop threads they create, and the clock.  Instants: when the run    *)
(* after the first is due.                                                 *)
SchedInstants == {SCHEDULE_MATCHFINDER_MIN}

InitSched == InitWith({KickoffTime}, {Unlisted}, {1}, {1}, 0)

NextSched ==
    \/ \E c \in Callers : StartCheck(c)
    \/ \E c \in Callers : StartThread(c)
    \/ \E c \in Callers : StopClear(c)
    \/ \E c \in Callers : StopJoin(c)
    \/ \E t \in Threads : LoopBegin(t)
    \/ \E t \in Threads : LoopCheck(t)
    \/ \E t \in Threads : JobAttempt(t, JobOutcomes)
    \/ \E t \in Threads : LoopSleep(t)
    \/ Advance(SchedInstants)

SpecSched == InitSched /\ [][NextSched]_vars

(* C16: at most one scheduler loop thread is live, and no two executions   *)
(* of the discovery job overlap.                                           *)
C16_NoDuplicateRuns ==
    /\ Cardinality({t \in Threads : is_alive(t)}) <= 1
    /\ Cardinality({t \in Threads : sched.threads[t].pc = "job"}) <= 1

(* C17: after a discovery run that raised an error other than a transient  *)
(* lock error, the loop thread is still running and the next run is        *)
(* scheduled one interval after this one.                                  *)
C17_SurvivesJobErrors ==
    \A t \in Threads :
       sched.threads[t].outcome \in {"operational", "error"} =>
          /\ is_alive(t)
          /\ sched.threads[t].next_run = sched.threads[t].now + 30

----------------------------------------------------------------------------
(* SpecRows: one tick after another over the listed rows, every call of    *)
(* the loop body raising or not.                                           *)
InitRows == InitWith({KickoffTime}, {Unlisted}, {1}, {1}, 0)

NextRows == RowUpdate \/ RowDecide \/ RowStrategy \/ NextTick

SpecRows == InitRows /\ [][NextRows]_vars

(* C18: at the end of a tick every row has been processed, whatever raised *)
(* before it, and for every row in which the live update, finalization or  *)
(* a strategy raised, every strategy has been run.                         *)
C18_FailureIsolation ==
    tick.at = "end" =>
       /\ \A r \in Rows : <<r, "update", 0>> \in tick.ran
       /\ \A r \in Rows :
             (\E c \in tick.raised : c[1] = r)
             => \A k \in Strategies : <<r, "strategy", k>> \in tick.ran

(* a tick has ended in which the update of the first row, the finalization *)
(* of the second and the first strategy of the second raised               *)
C18_Witness ==
    /\ tick.at = "end"
    /\ {<<1, "update", 0>>, <<2, "decide", 0>>, <<2, "strategy", 1>>} \subseteq tick.raised
    /\ \A r \in Rows, k \in Strategies : <<r, "strategy", k>> \in tick.ran

----------------------------------------------------------------------------
(* C19: in a strategy step on a match whose entry 2 is placed (e_ordered = *)
(* 2) and whose time_elapsed is below 75, no cancellation fires, the order *)
(* is not marked cancelled, e_remaining is not zeroed and no live cancel   *)
(* is sent; and an entry-2 cancellation fires only when entry 2 was placed *)
(* at the second-entry cap.                                                *)
C19_Entry2NotCancelledEarly ==
    [][ (InCurrent /\ InCurrent' /\ trail'.op = "strategy" /\ Row.e_ordered = 2)
        => /\ (Row.time_elapsed = None \/ Row.time_elapsed < 75)
              => (/\ trail'.c1 # "ok" /\ trail'.c2 # "ok"
                  /\ (Row'.e_status \in CancelledMarks => Row.e_status \in CancelledMarks)
                  /\ (Row'.e_remaining = 0 => Row.e_remaining = 0)
                  /\ trail'.sent = {})
           /\ trail'.c2 = "ok" => gw.p2 = 25
      ]_vars

----------------------------------------------------------------------------
(* C21: a row that decide_to_archive deletes without archiving has, as     *)
(* stored at the moment of deletion, no ft_score, a non-terminal status    *)
(* and time_elapsed null or < 90; a row the same call has written a        *)
(* settlement on is never deleted unarchived.                              *)
C21_DeletedOnlyUnusable ==
    (trail.op = "decide" /\ trail.deleted) =>
        /\ trail.gone[1] = NoFt
        /\ trail.gone[2] \notin {"Finished", "Cancelled", "Abandoned"}
        /\ (trail.gone[3] = None \/ trail.gone[3] < 90)
        /\ trail.gone[4] = None /\ trail.gone[5] = None

(* C22: the strategy step that follows, in the same tick, a finalization   *)
(* that archived or deleted the match leaves both tables and the gateway   *)
(* as they are: no write, no order, no cancel.                             *)
C22_NoStrategyAfterRemoval ==
    [][ (trail.op = "decide" /\ (trail.moved \/ trail.deleted) /\ trail'.op = "strategy")
        => /\ current_matches' = current_matches
           /\ archive' = archive
           /\ gw' = gw
           /\ ~trail'.e1 /\ ~trail'.e2
           /\ trail'.c1 = "no" /\ trail'.c2 = "no" /\ trail'.sent = {}
      ]_vars

(* the strategy step has run on a match of the strategy, with an order,    *)
(* that finalization archived in this tick                                 *)
C22_Witness ==
    /\ trail.op = "strategy" /\ ~InCurrent
    /\ Len(archive) = 1 /\ archive[1].strategy = "LTD60" /\ archive[1].e_ordered = 1
    /\ ev.strategy = "LTD60" /\ api

(* C23: after a live update in which a gateway call raised, the tick goes  *)
(* on to finalization (and then to the strategies) for that match.         *)
C23_GatewayFailureCostsUpdateOnly ==
    (trail.op = "update" /\ trail.raised /\ InCurrent) => pc = "decide"

(* C24: a failed live order submission is terminal; once the stored row    *)
(* carries the error marker of an entry (ERROR for entry 1, SECOND_ERROR    *)
(* for entry 2), no later strategy step calls place_orders for that entry,  *)
(* and a failed entry-2 submission leaves its marker in e_status.           *)
C24_SubmissionFailureTerminal ==
    [][ (InCurrent /\ InCurrent' /\ PAPER_MODE = 0 /\ trail'.op = "strategy")
        => /\ (Row.e_status = "ERROR" => 1 \notin trail'.sub)
           /\ (Row.e_status = "SECOND_ERROR" => 2 \notin trail'.sub)
           /\ ((2 \in trail'.sub /\ ~trail'.e2) => Row'.e_status = "SECOND_ERROR")
      ]_vars

----------------------------------------------------------------------------
(* the snapshot decide_to_archive was given is a finished match with both  *)
(* scores known                                                             *)
NaturalFinishDue ==
    /\ trail.op = "decide"
    /\ ev.inplay_status = "Finished"
    /\ ev.h_score # None /\ ev.a_score # None

(* C25: a match given to decide_to_archive as Finished with both scores    *)
(* known is, in that same call (the store not failing), written            *)
(* ft_score = "H-A", result = 1 iff H # A and pnl, and moved to the        *)
(* archive; on every archived record result is non-null iff both halves    *)
(* of its ft_score parse to integers.                                       *)
C25_NaturalFinish ==
    /\ (NaturalFinishDue /\ ~trail.store_fail) =>
          /\ trail.moved /\ ~InCurrent /\ Len(archive) = 1
          /\ archive[1].ft_score = <<str(ev.h_score), "-", str(ev.a_score)>>
          /\ archive[1].result = (IF ev.h_score # ev.a_score THEN 1 ELSE 0)
          /\ archive[1].pnl = calculate_pnl(ev, archive[1].result)
    /\ \A i \in 1..Len(archive) :
          (archive[i].result # None) <=>
             (_parse_ft(archive[i].ft_score)[1] # None
              /\ _parse_ft(archive[i].ft_score)[2] # None)

(* a home win 1-0 of a traded match was archived with result 1 and the     *)
(* matched size as pnl                                                      *)
C25_Witness ==
    /\ NaturalFinishDue /\ ~trail.store_fail
    /\ ev.h_score = 1 /\ ev.a_score = 0 /\ ev.strategy = STRATEGY_NAME
    /\ Len(archive) = 1 /\ archive[1].ft_score = <<"1", "-", "0">>
    /\ archive[1].result = 1 /\ archive[1].pnl # None /\ archive[1].pnl > 0

----------------------------------------------------------------------------
(* C26: a strategy step records an entry-1 order (paper fill or live       *)
(* submission, failed or not) only when the kickoff is at most             *)
(* LTD60_KO_WINDOW_MINUTES in the future and the draw price fetched in     *)
(* that step is a positive number.                                          *)
C26_Entry1Timing ==
    [][ (pc = "strategy" /\ trail'.op = "strategy" /\ trail'.e1)
        => /\ ~(ev.kickoff # None /\ ev.kickoff - now > 12 * 60)
           /\ trail'.d # None /\ trail'.d > 0
      ]_vars

(* entry 1 was placed one minute before kickoff at the capped price *)
C26_Witness ==
    /\ trail.op = "strategy" /\ trail.e1 /\ pc = "idle"
    /\ ev.kickoff # None /\ ev.kickoff - now = 60
    /\ trail.d = 90 /\ InCurrent /\ Row.e_price = LTD60_MAX_ODDS_ACCEPT

----------------------------------------------------------------------------
(* C27: within one tick of a match the phases run in the order live        *)
(* update, finalization, strategies, and each phase is handed the row as   *)
(* the store holds it once the previous phase has written: when            *)
(* finalization or the strategy phase is about to start, the in-memory     *)
(* snapshot ev is the stored row.                                           *)
C27_PhaseOrder ==
    (pc \in {"decide", "strategy"}) => (InCurrent /\ ev = Row)

----------------------------------------------------------------------------
(* C28: every cancellation attempt of a strategy step leaves the row with  *)
(* e_status updated: to a CANCELLED marker when it succeeded, to a         *)
(* CANCEL_ERR marker when it failed; a failed attempt leaves e_matched,    *)
(* e_remaining, e_stake and e_ordered as they were.                        *)
C28_CancelRecorded ==
    /\ ("ok" \in {trail.c1, trail.c2}) =>
          /\ trail.can[2][4] \in CancelledMarks
          /\ trail.can[2][4] # trail.can[1][4]
    /\ ("err" \in {trail.c1, trail.c2}) =>
          /\ trail.can[2][4] \in CancelErrMarks
          /\ trail.can[2][4] # trail.can[1][4]
          /\ trail.can[2][5] = trail.can[1][5]
          /\ trail.can[2][6] = trail.can[1][6]
          /\ trail.can[2][3] = trail.can[1][3]
          /\ trail.can[2][1] = trail.can[1][1]

(* a live cancel of an unmatched entry 1 failed and the row keeps the      *)
(* whole stake as remaining                                                 *)
C28_Witness ==
    /\ trail.op = "strategy" /\ trail.c1 = "err" /\ ~trail.e2
    /\ InCurrent /\ Row.e_status \in CancelErrMarks
    /\ Row.e_remaining = STAKE_LTD_LIVE /\ Row.e_ordered = 1

----------------------------------------------------------------------------
(* C29: within one scheduled run the discovery job is attempted at most    *)
(* five times; a further attempt follows only a "database is locked"       *)
(* failure, after a wait of 0.5 s times the number of the failed attempt;  *)
(* a successful attempt ends the run; after a fifth locked attempt the run *)
(* is given up and the loop sleeps with the next run scheduled one         *)
(* interval after this one.                                                 *)
C29_RetryBound ==
    [][ \A t \in Threads :
          (sched.threads[t].pc = "job" /\ sched'.threads[t] # sched.threads[t])
          => /\ sched.threads[t].attempt \in 1..5
             /\ (sched'.threads[t].pc = "job") =>
                   /\ sched'.threads[t].outcome = "locked"
                   /\ sched.threads[t].attempt < 5
                   /\ sched'.threads[t].attempt = sched.threads[t].attempt + 1
                   /\ sched'.threads[t].wait = 5 * sched.threads[t].attempt
             /\ (sched'.threads[t].outcome = "ok"
                 \/ (sched'.threads[t].outcome = "locked"
                     /\ sched.threads[t].attempt = 5)) =>
                   /\ sched'.threads[t].pc = "sleep"
                   /\ sched'.threads[t].next_run = sched.threads[t].now + 30
      ]_vars

(* a run was given up after its fifth locked attempt and the loop sleeps   *)
(* until the next run                                                       *)
C29_Witness ==
    \E t \in Threads :
       /\ sched.threads[t].pc = "sleep"
       /\ sched.threads[t].outcome = "locked"
       /\ sched.threads[t].next_run = sched.threads[t].now + 30

----------------------------------------------------------------------------
(* SpecSchedFair: start_scheduler and stop_scheduler called from the main  *)
(* thread, with every loop thread scheduled: a thread that can take its    *)
(* next step (the job it runs returning included) eventually takes it.     *)
LoopStep(t) ==
    LoopBegin(t) \/ LoopCheck(t) \/ JobAttempt(t, JobOutcomes) \/ LoopSleep(t)

NextSchedFair ==
    \/ StartCheck("main")
    \/ StartThread("main")
    \/ StopClear("main")
    \/ StopJoin("main")
    \/ \E t \in Threads : LoopBegin(t)
    \/ \E t \in Threads : LoopCheck(t)
    \/ \E t \in Threads : JobAttempt(t, JobOutcomes)
    \/ \E t \in Threads : LoopSleep(t)
    \/ Advance(SchedInstants)

SpecSchedFair ==
    InitSched /\ [][NextSchedFair]_vars /\ \A t \in Threads : WF_vars(LoopStep(t))

----------------------------------------------------------------------------
(* C31: the purge pre-pass at the start of a tick deletes the current row  *)
(* only if its kickoff is at least 24 hours old and inplay_status,         *)
(* ft_score, h_score and a_score are all null; a row it keeps is           *)
(* unchanged, and the archive is never written.                             *)
C31_PurgeDataFree ==
    [][ (pc = "idle" /\ trail'.op = "begin") =>
          /\ archive' = archive
          /\ (InCurrent /\ ~InCurrent') =>
                /\ Row.kickoff # None
                /\ now - Row.kickoff >= 24 * 3600
                /\ Row.inplay_status = NoStatus /\ Row.ft_score = NoFt
                /\ Row.h_score = None /\ Row.a_score = None
          /\ (InCurrent /\ InCurrent') => Row' = Row
          /\ ~InCurrent => ~InCurrent'
      ]_vars

(* a tick began on a day-old match that has data, and the row was kept *)
C31_Witness ==
    /\ trail.op = "begin" /\ ~trail.deleted /\ InCurrent
    /\ Row.kickoff # None /\ now - Row.kickoff >= 24 * 3600
    /\ Row.inplay_status # NoStatus

----------------------------------------------------------------------------
(* the starting-price columns of a row *)
SPFields(r) == <<r.h_SP, r.a_SP, r.d_SP, r.fav>>

(* C32: a live update changes h_SP, a_SP, d_SP or fav only when the        *)
(* kickoff is between 0 and SP_CAPTURE_WINDOW_SEC seconds ahead, or when   *)
(* the fallback is enabled, some starting price is still null and the row  *)
(* the update was given shows the match started (time_elapsed >= 0 or      *)
(* status KickOff, InPlay, SecondHalfKickOff); before the window and       *)
(* before play starts the four columns stay as they are.                   *)
C32_SPCaptureTiming ==
    [][ (pc = "update" /\ InCurrent /\ InCurrent'
         /\ SPFields(Row') # SPFields(Row))
        => \/ (Row.kickoff # None /\ 0 <= Row.kickoff - now
               /\ Row.kickoff - now <= 90)
           \/ (SP_FALLBACK_INPLAY
               /\ (Row.h_SP = None \/ Row.a_SP = None \/ Row.d_SP = None)
               /\ ((Row.time_elapsed # None /\ Row.time_elapsed >= 0)
                   \/ Row.inplay_status \in {"KickOff", "InPlay", "SecondHalfKickOff"}))
      ]_vars

(* an update before the window of a match not yet started was offered a    *)
(* full book and wrote the live prices but no starting price               *)
C32_Witness ==
    /\ trail.op = "update" /\ InCurrent
    /\ Row.kickoff # None /\ Row.kickoff - now > SP_CAPTURE_WINDOW_SEC
    /\ Row.h_back_price # None /\ Row.a_back_price # None
    /\ Row.inplay_status = NoStatus /\ Row.time_elapsed = None
    /\ SPFields(Row) = <<None, None, None, None>>

----------------------------------------------------------------------------
(* the live-state columns and the market columns of a row *)
LiveFields(r) ==
    <<r.inplay_status, r.time_elapsed, r.h_score, r.a_score, r.h_goals, r.a_goals>>
MarketFields(r) ==
    <<r.h_back_price, r.a_back_price, r.d_back_price, r.market_state, SPFields(r)>>

(* C33: a live update in which get_scores gave no answer leaves            *)
(* inplay_status, time_elapsed, the scores and every goal band of the      *)
(* match unchanged; one in which the match has no market id or no order    *)
(* book came back leaves the prices, market_state, the starting prices     *)
(* and fav unchanged.                                                       *)
C33_NoDataNoWrite ==
    [][ (pc = "update" /\ trail'.op = "update" /\ trail'.got # <<>>
         /\ InCurrent /\ InCurrent')
        => /\ (~trail'.got[1] => LiveFields(Row') = LiveFields(Row))
           /\ (~trail'.got[2] => MarketFields(Row') = MarketFields(Row))
      ]_vars

(* a match in play with live prices stored went through an update in which *)
(* neither scores nor an order book came back                               *)
C33_Witness ==
    /\ trail.op = "update" /\ trail.got = <<FALSE, FALSE>> /\ InCurrent
    /\ Row.inplay_status = "InPlay" /\ Row.time_elapsed # None
    /\ Row.h_score # None /\ Row.h_back_price # None

----------------------------------------------------------------------------
(* fav of a record agrees with its stored starting prices *)
FavConsistent(r) ==
    /\ (r.fav # None) =>
          /\ r.h_SP # None /\ r.a_SP # None
          /\ r.fav = (IF r.h_SP < r.a_SP THEN 1 ELSE IF r.a_SP < r.h_SP THEN 2 ELSE 0)
    /\ (r.h_SP # None /\ r.a_SP # None) => r.fav # None

(* C34: on every record, current or archived, a non-null fav comes with    *)
(* non-null h_SP and a_SP and is 1 if h_SP < a_SP, 2 if a_SP < h_SP, 0 if  *)
(* they are equal; and fav is non-null whenever h_SP and a_SP both are.    *)
C34_FavConsistent ==
    /\ InCurrent => FavConsistent(Row)
    /\ \A i \in 1..Len(archive) : FavConsistent(archive[i])

(* the two starting prices were captured in different ticks and are equal  *)
C34_Witness ==
    /\ InCurrent /\ trail.op = "update"
    /\ Row.h_SP # None /\ Row.a_SP = Row.h_SP /\ Row.fav = 0
    /\ Row.a_back_price # None /\ Row.h_back_price = None

----------------------------------------------------------------------------
(* C35: e_ordered of a record is unset, 1 or 2; no step lowers it; a       *)
(* cancellation attempt leaves it as it was; and entry 2 is placed only on *)
(* a row whose e_ordered is 1.                                              *)
C35_OrderCounterMonotone ==
    /\ [](/\ InCurrent => Row.e_ordered \in {None, 0, 1, 2}
          /\ \A i \in 1..Len(archive) : archive[i].e_ordered \in {None, 0, 1, 2}
          /\ (trail.e2 \/ 2 \in trail.sub) => trail.op = "strategy"
          /\ trail.e2 => trail.gate[5] = 1
          /\ trail.can # <<>> => trail.can[2][1] = trail.can[1][1])
    /\ [][ /\ (InCurrent /\ InCurrent') => or0(Row'.e_ordered) >= or0(Row.e_ordered)
           /\ (2 \in trail'.sub /\ InCurrent) => or0(Row.e_ordered) <= 1
         ]_vars

(* entry 1 was cancelled unmatched and entry 2 then placed: the counter    *)
(* went from 1 to 2                                                         *)
C35_Witness ==
    /\ trail.op = "strategy" /\ trail.e2 /\ trail.c1 = "ok"
    /\ trail.can[1][1] = 1 /\ trail.gate[5] = 1
    /\ InCurrent /\ Row.e_ordered = 2

----------------------------------------------------------------------------
(* the order accounting of a record on which an order was recorded *)
PaperAccounting(r) ==
    r.e_ordered # None =>
       /\ 0 <= or0(r.e_matched) /\ 0 <= or0(r.e_remaining)
       /\ or0(r.e_matched) + or0(r.e_remaining) <= or0(r.e_stake)
       /\ (or0(r.e_matched) = 0 => or0(r.liability) = 0)

(* C36: in paper mode every record, current or archived, has               *)
(* 0 <= e_matched, 0 <= e_remaining, e_matched + e_remaining <= e_stake,   *)
(* and liability = 0 whenever e_matched = 0, whatever sequence of entry 1, *)
(* entry-1 cancel, entry 2 and entry-2 cancel it went through.             *)
C36_PaperAccounting ==
    PAPER_MODE = 1 =>
       /\ InCurrent => PaperAccounting(Row)
       /\ \A i \in 1..Len(archive) : PaperAccounting(archive[i])

(* paper mode: entry 1 at the cap stayed unmatched and was cancelled,      *)
(* entry 2 was then placed at its cap and is unmatched                     *)
C36_Witness ==
    /\ PAPER_MODE = 1 /\ InCurrent /\ Row.e_ordered = 2
    /\ Row.e_matched = 0 /\ Row.e_remaining = STAKE_LTD_PAPER
    /\ Row.e_stake = 2 * STAKE_LTD_PAPER /\ Row.liability = 0
    /\ Row.e_price = LTD60_MAX_ODDS_ACCEPT

----------------------------------------------------------------------------
(* C37: e_price of every record is at most LTD60_MAX_ODDS_ACCEPT, and a    *)
(* strategy step that places entry 2 leaves e_price as entry 1 set it      *)
(* (in an earlier tick, or earlier in the same tick).                      *)
C37_EntryPriceCapped ==
    /\ [](/\ (InCurrent /\ Row.e_price # None) => Row.e_price <= 45
          /\ \A i \in 1..Len(archive) :
                archive[i].e_price # None => archive[i].e_price <= 45)
    /\ [][ (pc = "strategy" /\ trail'.op = "strategy" /\ InCurrent /\ InCurrent'
            /\ (trail'.e2 \/ 2 \in trail'.sub))
           => Row'.e_price = (IF trail'.e1 THEN trail'.rec1[2] ELSE Row.e_price)
         ]_vars

(* live mode: entry 1 went in at its cap, entry 2 later at the lower cap,  *)
(* and the stored price is still entry 1's                                  *)
C37_Witness ==
    /\ PAPER_MODE = 0 /\ trail.op = "strategy" /\ trail.e2 /\ ~trail.e1
    /\ InCurrent /\ Row.e_ordered = 2
    /\ Row.e_price = LTD60_MAX_ODDS_ACCEPT /\ gw.p2 = LTD60_MAX_SECOND_ENTRY_ODDS

----------------------------------------------------------------------------
(* C38: every archived record has inplay_status = Finished and a non-null  *)
(* ft_score, and a step moves a match to the archive only if the row it    *)
(* finalizes has an ft_score or both live scores.                          *)
C38_ArchivedSettled ==
    /\ [](\A i \in 1..Len(archive) :
             archive[i].inplay_status = "Finished" /\ archive[i].ft_score # NoFt)
    /\ [][ (Len(archive') > Len(archive)) =>
             /\ InCurrent /\ ~InCurrent'
             /\ (Row.ft_score # NoFt \/ (Row.h_score # None /\ Row.a_score # None))
         ]_vars

(* a match still reported in play four hours after kickoff was forced to   *)
(* the archive as Finished with its last score                              *)
C38_Witness ==
    /\ trail.op = "decide" /\ trail.moved /\ ev.inplay_status = "InPlay"
    /\ Len(archive) = 1 /\ archive[1].inplay_status = "Finished"
    /\ archive[1].ft_score = <<"1", "-", "0">>

----------------------------------------------------------------------------
(* the order-lifecycle columns of a row *)
LifecycleFields(r) ==
    <<r.e_ordered, r.e_stake, r.e_matched, r.e_remaining, r.e_status, r.liability>>

(* the row meets the entry-2 conditions: late-goal league, entry 1 placed, *)
(* 0-0, past the second-entry minute                                       *)
Entry2Due(r) ==
    /\ r.strategy = STRATEGY_NAME /\ r.market_id_MATCH_ODDS # None
    /\ _normalise(r.comp) \in _late_goals
    /\ r.e_ordered = 1
    /\ or0(r.h_score) = 0 /\ or0(r.a_score) = 0
    /\ truthy(r.time_elapsed) /\ r.time_elapsed > LTD60_SECOND_ENTRY_TIME

(* C39: in a strategy tick where the entry-2 conditions hold and no live   *)
(* draw price is available, no second order is placed or submitted and the *)
(* order-lifecycle columns stay as the earlier steps of the tick left      *)
(* them: as the cancel left them if one was attempted, else as they were   *)
(* before the tick when no order report was synced.                        *)
C39_MissingDrawPrice ==
    [][ (pc = "strategy" /\ pc' = "idle" /\ InCurrent /\ Entry2Due(Row)
         /\ ev.strategy = STRATEGY_NAME /\ ev.market_id_MATCH_ODDS # None
         /\ trail'.d = None) =>
          /\ InCurrent'
          /\ ~trail'.e2 /\ 2 \notin trail'.sub
          /\ gw'.m2 = gw.m2 /\ gw'.p2 = gw.p2
          /\ Row'.e_ordered = 1 /\ Row'.e_stake = Row.e_stake
          /\ trail'.can # <<>> =>
                /\ Row'.e_matched = trail'.can[2][5]
                /\ Row'.e_remaining = trail'.can[2][6]
                /\ Row'.e_status = trail'.can[2][4]
                /\ Row'.liability = trail'.can[2][8]
          /\ (trail'.can = <<>> /\ ~(api /\ Row.e_betid # None)) =>
                LifecycleFields(Row') = LifecycleFields(Row)
      ]_vars

(* entry 2 was due on a scoreless late-goal match past the hour with no    *)
(* draw price, and the tick raised without touching the order              *)
C39_Witness ==
    /\ pc = "idle" /\ trail.op = "strategy" /\ trail.raised /\ trail.d = None
    /\ InCurrent /\ Entry2Due(Row) /\ ~trail.e2 /\ trail.can = <<>>
    /\ Row.e_status = "PAPER_EXECUTED"
====
